---- MODULE Spec2Model ----
(***************************************************************************)
(* Podcast-MP3: the chunked synthesis-and-merge pipeline.                  *)
(*                                                                         *)
(* The repository holds several variants of the same pipeline.  Each       *)
(* variant is modelled as its own state machine over its own group of      *)
(* variables; the variable prog says which variant a behaviour runs, and   *)
(* every action is guarded by it.                                          *)
(*                                                                         *)
(*   "routes"   POST /chunked of src/routes/tts.js        (Semaphore)      *)
(*   "part002"  POST /chunked of src/unnamed/part_002     (Semaphore)      *)
(*   "part020"  processURLsToMergedTTS of part_020        (ConcurrencyPool)*)
(*   "part022"  processURLsToMergedTTS of part_022        (shared Semaphore)*)
(*   "part019"  POST /tts/chunked of part_019             (batch loop)     *)
(*   "jobs"     POST / and synthesizeAllChunks of src/routes/tts.js (pLimit)*)
(*   "r2"       uploadToR2 of src/utils/r2.js             (retry loop)     *)
(*   "r2multi"  uploadMultipleToR2 of src/utils/r2.js     (Promise.all)    *)
(*   "chunkers" chunkTextForTTS, chunkText, splitTextIntoChunks,          *)
(*              chunkTextToSSML of part_016 and of src/utils/ssmlTools.js *)
(*   "merge"    mergeChunks, mergeTTSChunks, mergeMp3WithFfmpeg           *)
(*   "podcast"  createPodcast of src/utils/podcastProcessor.js            *)
(*   "audiomerge" mergeAudioFiles of src/unnamed/part_013                 *)
(*   "openai"   callOpenAIChunk of src/utils/chatgptSSMLGenerator.js      *)
(*   "merge2"   two concurrent merge calls for one sessionId             *)
(***************************************************************************)
EXTENDS Integers, Sequences, FiniteSets, TLC

\* ------------------------------------------------------------------ bounds
NumTextUrls == 3        \* text chunk URLs of a session (and chunks of a text)
MaxConcurrency == 2     \* largest value of the request's concurrency field
MaxBytes == 2           \* largest length of a synthesized audio buffer
NumUrls == 2            \* source URLs of one processURLsToMergedTTS call
MaxSsmlChunks == 2      \* most SSML chunks one URL's text is split into
MaxPoolConcurrency == 2 \* largest configured MAX_CONCURRENCY
NumRequests == 2        \* calls of processURLsToMergedTTS that share the Semaphore
MaxCallChunks == 3      \* most SSML chunks of all URLs of one such call
MaxBatchChunks == 5     \* most chunks splitTextIntoChunks returns
NumSessions == 1        \* sessionIds that are posted
MaxJobChunks == 3       \* most chunk texts listChunkTexts finds for a session
MaxRetries == 5         \* largest maxRetries a caller of uploadToR2 passes
MaxUploads == 3         \* most uploads one uploadMultipleToR2 call is given
MaxTextLen == 5         \* longest text a chunker is given
MaxLength == 4          \* largest maxLength a chunker is given
MaxOverlap == 2         \* largest overlap chunkTextToSSML is given
MaxMergeChunks == 3     \* most chunk files a merge routine is given
DurationSlack == 2      \* how far the intro and outro durations are from their floors
MaxBuffers == 3         \* most items of the list mergeAudioFiles is given
MaxBufferLen == 2       \* longest Buffer of that list

VARIABLES
    prog,            \* which variant of the pipeline runs
    \* ---- POST /chunked (routes/tts.js, part_002)
    concurrency,     \* req.body.concurrency
    returnBase64,    \* req.body.returnBase64
    audioConfig,     \* req.body.audioConfig (the default when the body has none)
    audioValidation, \* what validateAudioConfig(audioConfig) returned
    pc,              \* position of the handler
    fetchI,          \* fetchTextFromUrls: the next URL (1-based) to fetch
    textChunks,      \* fetchTextFromUrls' results: <<[url |-> n], ...>>
    sem,             \* the request's Semaphore: [max, current, queue]
    task,            \* the chunk tasks, by index 0..N-1: [st, via, bytes]
    response,        \* what the handler has sent
    timedOut,        \* the timeout middleware has sent its 408 (index.js 236-265)
    \* ---- processURLsToMergedTTS with a ConcurrencyPool (part_020)
    pool,            \* the call's ConcurrencyPool: [max, active, queue]
    ssmlChunks,      \* by URL: the number of SSML chunks of its text (0: no text)
    chunkIndex,      \* by URL: the index of the chunk its loop is at
    urlState,        \* by URL: where that chunk is
    chunkUrls,       \* the uploaded chunks, in the order they were pushed
    poolPc,          \* position of the call
    poolResult,      \* what the call returned
    \* ---- processURLsToMergedTTS with the module-level Semaphore (part_022)
    MAX_CONCURRENCY, \* the configured limit the Semaphore is made with
    semaphore,       \* the module's Semaphore: [count, tasks]
    rqPc,            \* by request: position of its processURLsToMergedTTS call
    rqChunks,        \* by request and URL: the number of SSML chunks (0: no text)
    rqTask,          \* by request, URL and chunk index: where that chunk is
    chunkResults,    \* by request, URL and index: what was written to
                     \* chunkResults[index], oldest first
    rqChunkUrls,     \* by request: chunkUrls, in the order pushed
    rqResults,       \* by request: results, in the order pushed
    rqReturn,        \* by request: what the call returned
    \* ---- POST /tts/chunked with batches of `concurrency` chunks (part_019)
    bConcurrency,    \* req.body.concurrency
    bChunks,         \* chunks.length
    bI,              \* the loop variable i: index of the current batch's first chunk
    bTask,           \* by chunk index: where its processChunk call is
    bResults,        \* results: the indices pushed
    bPc,             \* position of the handler
    bResponse,       \* what the handler has sent
    \* ---- the job pipeline: POST / and synthesizeAllChunks (routes/tts.js 400-613)
    TTS_CONCURRENCY, \* the configured limit of pLimit
    jobs,            \* the job store: by sessionId, the job or NoJob
    jobPc,           \* by sessionId: position of its synthesizeAllChunks call
    jobChunks,       \* by sessionId: chunks.length
    jobTask,         \* by sessionId and chunk index: where its limit(...) task is
    limit,           \* by sessionId: the pLimit limiter [activeCount, queue]
    buffers,         \* by sessionId and slot: what was written to buffers[slot],
                     \* oldest first (the slot holds the last)
    jobRuns,         \* by sessionId: the calls of synthesizeAllChunks made
    postFound,       \* the sessionId of the last POST and the status its job
                     \* had when the POST arrived
    jobRes,          \* the last response the job router has sent
    bucket,          \* the keys of the objects stored in R2_BUCKET
    \* ---- one call of uploadToR2 (utils/r2.js 23-131)
    maxRetries,      \* the call's maxRetries parameter
    attempt,         \* the loop variable
    upPc,            \* position of the call
    upLog,           \* the logger's entries of the call: one per attempt made
    upWaits,         \* the backoff times waited so far, in order
    upSends,         \* attempts whose PutObject request is still outstanding
    upResult,        \* what the call returned or threw
    \* ---- one call of uploadMultipleToR2 (utils/r2.js 134-217)
    muN,             \* uploads.length
    muPc,            \* position of the call
    muTask,          \* by position i+1: the mapper of upload i, [attempt, result]
    muReturn,        \* what the call returned
    \* ---- one call of a text chunker (part_002 189-240, textProcessor.js
    \*      124-151, ttsProcessor.js 59-87)
    ckFn,            \* which chunker is called
    ckText,          \* its text argument, a sequence of characters
    ckMax,           \* its maxLength (maxChunkSize, maxChunkBytes) argument
    ckOverlap,       \* the overlap argument of part_016's chunkTextToSSML
    ckPc,            \* position of the call
    ckChunks,        \* the chunks it returned
    \* ---- one call of a merge routine (utlis/mergeTTSChunks.js, part_012,
    \*      routes/tts.js 480-516)
    mgFn,            \* which merge routine is called
    mgN,             \* the number of chunk files (buffers) it is given
    mgPc,            \* position of the call
    mgFiles,         \* the temporary files of the call that exist: [dir, list, out, parts]
    mgFfmpeg,        \* how the ffmpeg process ended
    mgPromise,       \* the promise that wraps the ffmpeg process
    mgUpload,        \* the upload of the merged file: none, started, ok, failed
    \* ---- one call of createPodcast (utils/podcastProcessor.js 29-89)
    pdIntro,         \* the duration of the intro track, in seconds
    pdOutro,         \* the duration of the outro track, in seconds
    pdPc,            \* position of the call
    pdDownload,      \* by track (merged, intro, outro): where its downloadAudio call is
    pdProcessed,     \* the inputs of the fade and concatenation step, in order (none: <<>>)
    pdUploaded,      \* the program that was uploaded (none: <<>>)
    pdError,         \* the error createPodcast threw
    \* ---- mergeAudioFiles (part_013 15-50): a call on a list and a call on the reversed list
    audioBuffers,    \* the list of the first call: items [isBuffer, bytes]
    maPc,            \* by call (1: the list, 2: the reversed list): position of the call
    maResult,        \* by call: what it returned
    \* ---- callOpenAIChunk (utils/chatgptSSMLGenerator.js 23-70): the calls of one process
    oaCache,         \* _cache: by text, the cached content
    oaText,          \* the text of the call
    oaPc,            \* position of the call
    oaAttempt,       \* let attempt
    oaLog,           \* the axios.post calls of the call: how each settled, the timer started after it
    oaReturn,        \* what the call returned
    \* ---- two concurrent calls of a merge routine for one sessionId, and the files of the host
    m2Fn,            \* the routine both calls run
    m2List,          \* by call: its chunk list (an identity)
    m2SameMs,        \* the two calls read the same Date.now()
    m2Pc,            \* by call: position of the call
    m2Fs,            \* the file system: by path, the content of the file, <<>> when there is none
    m2Wrote,         \* by call: what its ffmpeg wrote to the output file
    m2Upload         \* by call: the body it handed to the upload

chunkedVars == <<concurrency, returnBase64, audioConfig, audioValidation, pc, fetchI,
                 textChunks, sem, task, response, timedOut>>
poolVars == <<pool, ssmlChunks, chunkIndex, urlState, chunkUrls, poolPc, poolResult>>

sharedVars == <<MAX_CONCURRENCY, semaphore, rqPc, rqChunks, rqTask, chunkResults,
                rqChunkUrls, rqResults, rqReturn>>

batchVars == <<bConcurrency, bChunks, bI, bTask, bResults, bPc, bResponse>>

jobVars == <<TTS_CONCURRENCY, jobs, jobPc, jobChunks, jobTask, limit, buffers, jobRuns,
             postFound, jobRes, bucket>>

uploadVars == <<maxRetries, attempt, upPc, upLog, upWaits, upSends, upResult>>

multiVars == <<muN, muPc, muTask, muReturn>>

chunkerVars == <<ckFn, ckText, ckMax, ckOverlap, ckPc, ckChunks>>

mergeVars == <<mgFn, mgN, mgPc, mgFiles, mgFfmpeg, mgPromise, mgUpload>>

podcastVars == <<pdIntro, pdOutro, pdPc, pdDownload, pdProcessed, pdUploaded, pdError>>

audioMergeVars == <<audioBuffers, maPc, maResult>>

openAIVars == <<oaCache, oaText, oaPc, oaAttempt, oaLog, oaReturn>>

merge2Vars == <<m2Fn, m2List, m2SameMs, m2Pc, m2Fs, m2Wrote, m2Upload>>

\* the groups of the utility functions
utilVars == <<multiVars, chunkerVars, mergeVars, podcastVars, audioMergeVars, openAIVars, merge2Vars>>

\* everything but the named group
exceptMulti ==
    <<prog, chunkedVars, poolVars, sharedVars, batchVars, jobVars, uploadVars,
    chunkerVars,
    mergeVars,
    podcastVars,
    audioMergeVars,
    openAIVars,
    merge2Vars>>

exceptChunker ==
    <<prog, chunkedVars, poolVars, sharedVars, batchVars, jobVars, uploadVars,
    multiVars,
    mergeVars,
    podcastVars,
    audioMergeVars,
    openAIVars,
    merge2Vars>>

exceptMerge ==
    <<prog, chunkedVars, poolVars, sharedVars, batchVars, jobVars, uploadVars,
    multiVars,
    chunkerVars,
    podcastVars,
    audioMergeVars,
    openAIVars,
    merge2Vars>>

exceptPodcast ==
    <<prog, chunkedVars, poolVars, sharedVars, batchVars, jobVars, uploadVars,
    multiVars,
    chunkerVars,
    mergeVars,
    audioMergeVars,
    openAIVars,
    merge2Vars>>

exceptAudioMerge ==
    <<prog, chunkedVars, poolVars, sharedVars, batchVars, jobVars, uploadVars,
    multiVars,
    chunkerVars,
    mergeVars,
    podcastVars,
    openAIVars,
    merge2Vars>>

exceptOpenAI ==
    <<prog, chunkedVars, poolVars, sharedVars, batchVars, jobVars, uploadVars,
    multiVars,
    chunkerVars,
    mergeVars,
    podcastVars,
    audioMergeVars,
    merge2Vars>>

exceptMerge2 ==
    <<prog, chunkedVars, poolVars, sharedVars, batchVars, jobVars, uploadVars,
    multiVars,
    chunkerVars,
    mergeVars,
    podcastVars,
    audioMergeVars,
    openAIVars>>

vars == <<prog, chunkedVars, poolVars, sharedVars, batchVars, jobVars, uploadVars, utilVars>>

\* ------------------------------------------------------------- helpers
Range(s) == {s[k] : k \in 1..Len(s)}

RECURSIVE SumSeq(_)
SumSeq(s) == IF s = <<>> THEN 0 ELSE Head(s) + SumSeq(Tail(s))

NoResponse == [status |-> 0]

\* ===================================================================
\* Semaphore (routes/tts.js 365-396, part_002 326-364)
\* ===================================================================
NewSemaphore(max) == [max |-> max, current |-> 0, queue |-> <<>>]

\* (mutant) acquire() that compares with <= and so hands out max + 1 permits
SemHasRoomOffByOne(s) == s.current <= s.max

\* acquire(): the test that grants a permit at once
SemHasRoom(s) == s.current < s.max

\* acquire() of task k: a permit, or a place at the tail of the queue
SemAcquire(s, k) ==
    IF SemHasRoom(s)
    THEN [sem |-> [s EXCEPT !.current = @ + 1], admitted |-> <<k>>]
    ELSE [sem |-> [s EXCEPT !.queue = Append(@, k)], admitted |-> <<>>]

\* processQueue(): admit the head of the queue if there is room
processQueue(s) ==
    IF Len(s.queue) > 0 /\ s.current < s.max
    THEN [sem |-> [s EXCEPT !.queue = Tail(@), !.current = @ + 1],
          admitted |-> <<Head(s.queue)>>]
    ELSE [sem |-> s, admitted |-> <<>>]

\* part_002 only: the release closure handed out by acquire() itself admits
\* the head of the queue without testing current < max
releaseDirect002(s) ==
    IF Len(s.queue) > 0
    THEN [sem |-> [s EXCEPT !.queue = Tail(@), !.current = @ + 1],
          admitted |-> <<Head(s.queue)>>]
    ELSE [sem |-> s, admitted |-> <<>>]

\* (mutant) a release closure that gives the permit back and admits nobody
SemReleaseNoRefill(s, impl, via) ==
    [sem |-> [s EXCEPT !.current = @ - 1], admitted |-> <<>>]

\* (mutant) a release closure that gives the permit back twice
SemReleaseTwice(s, impl, via) == processQueue([s EXCEPT !.current = @ - 2])

\* the release closure of a permit; via says who handed the permit out
SemRelease(s, impl, via) ==
    LET s1 == [s EXCEPT !.current = @ - 1]
    IN  IF impl = "part002" /\ via = "acquire"
        THEN releaseDirect002(s1)
        ELSE processQueue(s1)

\* ===================================================================
\* POST /chunked (routes/tts.js 22-197, part_002 22-180)
\* ===================================================================
NoTask == [st |-> "none", via |-> "none", bytes |-> 0]

Indices == IF task = <<>> THEN {} ELSE DOMAIN task

Settled(t) == t.st \in {"fulfilled", "rejected"}

\* textChunks.map(async (textChunk, index) => semaphore.acquire().then(...)):
\* every acquire() is called while the map runs, in index order
RECURSIVE AcquireAll(_, _, _, _)
AcquireAll(s, t, k, n) ==
    IF k = n THEN [sem |-> s, task |-> t]
    ELSE LET a == SemAcquire(s, k)
         IN  AcquireAll(a.sem,
                        [t EXCEPT ![k] = IF a.admitted # <<>>
                                         THEN [st |-> "synth", via |-> "acquire", bytes |-> 0]
                                         ELSE [st |-> "queued", via |-> "none", bytes |-> 0]],
                        k + 1, n)

\* new Semaphore(concurrency) and the map over the chunks
StartProcessing(chunks) ==
    LET n == Len(chunks)
        r == AcquireAll(NewSemaphore(concurrency), [k \in 0..(n - 1) |-> NoTask], 0, n)
    IN  /\ sem' = r.sem
        /\ task' = r.task
        /\ pc' = "processing"
        /\ response' = response

\* ---- validateAudioConfig (part_013 146-199) and the handler's check
\* (routes/tts.js 70-78, part_002 43-51)
\* a JSON value of the request: undefined, a number (in hundredths) or a string
Undefined == [t |-> "undefined", n |-> 0, s |-> ""]
Num(n) == [t |-> "number", n |-> n, s |-> ""]
Str(s) == [t |-> "string", n |-> 0, s |-> s]

\* audioConfig = { audioEncoding: 'MP3', speakingRate: 1.0 }
DefaultAudioConfig == [isNull |-> FALSE, audioEncoding |-> Str("MP3"), speakingRate |-> Num(100)]

validEncodings == {"MP3", "LINEAR16", "OGG_OPUS", "MULAW", "ALAW"}

\* String.prototype.toUpperCase on the strings that occur
toUpperCase(str) ==
    CASE str = "mp3" -> "MP3"
      [] str = "wav" -> "WAV"
      [] OTHER -> str

\* the value is truthy (JavaScript)
Truthy(v) ==
    CASE v.t = "undefined" -> FALSE
      [] v.t = "number" -> v.n # 0
      [] OTHER -> v.s # ""

NoValidation == [valid |-> FALSE, threw |-> FALSE, errors |-> <<>>]

\* validateAudioConfig(audioConfig); pitch, volumeGainDb and sampleRateHertz
\* are undefined in the requests considered.  A truthy audioEncoding that is
\* no string has no toUpperCase: the call throws a TypeError
validateAudioConfig(cfg) ==
    IF cfg.isNull
    THEN [valid |-> FALSE, threw |-> FALSE, errors |-> <<"required">>]
    ELSE IF Truthy(cfg.audioEncoding) /\ cfg.audioEncoding.t # "string"
    THEN [valid |-> FALSE, threw |-> TRUE, errors |-> <<>>]
    ELSE LET e1 == IF Truthy(cfg.audioEncoding)
                      /\ toUpperCase(cfg.audioEncoding.s) \notin validEncodings
                   THEN <<"encoding">> ELSE <<>>
             e2 == IF cfg.speakingRate.t # "undefined"
                      /\ (cfg.speakingRate.t # "number"
                          \/ cfg.speakingRate.n < 25 \/ cfg.speakingRate.n > 400)
                   THEN <<"speakingRate">> ELSE <<>>
             errors == e1 \o e2
         IN  [valid |-> Len(errors) = 0, threw |-> FALSE, errors |-> errors]

\* (mutant) a handler that ignores the validation result
ValidationFailedNever(v) == FALSE

\* if (!audioValidation.valid)
ValidationFailed(v) == ~v.valid

\* the handler validates the audio configuration before it fetches or chunks
\* any text: 400 when it is invalid, the catch's 500 when the validator throws
ValidateRequest ==
    /\ prog \in {"routes", "part002"} /\ pc = "validate"
    /\ LET v == validateAudioConfig(audioConfig)
       IN  /\ audioValidation' = v
           /\ IF v.threw
              THEN /\ pc' = "responded"
                   /\ response' = [status |-> 500, error |-> "internal"]
              ELSE IF ValidationFailed(v)
              THEN /\ pc' = "responded"
                   /\ response' = [status |-> 400, error |-> "audio configuration",
                                   details |-> v.errors]
              ELSE /\ pc' = "fetch"
                   /\ response' = response
    /\ UNCHANGED <<poolVars, sharedVars, batchVars, jobVars, uploadVars, utilVars>>
    /\ UNCHANGED <<prog, concurrency, returnBase64, audioConfig, fetchI, textChunks, sem, task,
                   timedOut>>

\* fetchTextFromUrls: one fetch of the loop; a failed fetch is skipped.  After
\* the last one the handler goes on: 500 when nothing was fetched, else the map
FetchText(ok) ==
    /\ prog = "routes" /\ pc = "fetch"
    /\ LET got == IF ok THEN Append(textChunks, [url |-> fetchI]) ELSE textChunks
       IN  /\ textChunks' = got
           /\ IF fetchI < NumTextUrls
              THEN /\ fetchI' = fetchI + 1
                   /\ UNCHANGED <<pc, sem, task, response>>
              ELSE /\ fetchI' = fetchI
                   /\ IF Len(got) = 0
                      THEN /\ pc' = "responded"
                           /\ response' = [status |-> 500, error |-> "no text"]
                           /\ UNCHANGED <<sem, task>>
                      ELSE StartProcessing(got)
    /\ UNCHANGED <<poolVars, sharedVars, batchVars, jobVars, uploadVars, utilVars>>
    /\ UNCHANGED <<prog, concurrency, returnBase64, audioConfig, audioValidation, timedOut>>

\* part_002: the chunks come from chunkTextForTTS(processedText); n of them
ChunkText002(n) ==
    /\ prog = "part002" /\ pc = "fetch"
    /\ LET got == [k \in 1..n |-> [url |-> 0]]
       IN  /\ textChunks' = got
           /\ IF n = 0
              THEN /\ pc' = "responded"
                   /\ response' = [status |-> 400, error |-> "no chunks"]
                   /\ UNCHANGED <<sem, task>>
              ELSE StartProcessing(got)
    /\ UNCHANGED <<poolVars, sharedVars, batchVars, jobVars, uploadVars, utilVars>>
    /\ UNCHANGED <<prog, concurrency, returnBase64, audioConfig, audioValidation,
                   fetchI, timedOut>>

\* finally { release() }: the permit goes back and the head of the queue, if
\* admitted, starts its synthesis
SettleTask(i, outcome, bytes) ==
    LET r == SemRelease(sem, prog, task[i].via)
        t1 == [task EXCEPT ![i] = [st |-> outcome, via |-> "none", bytes |-> bytes]]
    IN  /\ sem' = r.sem
        /\ task' = IF r.admitted = <<>> THEN t1
                   ELSE [t1 EXCEPT ![Head(r.admitted)] =
                            [st |-> "synth", via |-> "queue", bytes |-> 0]]

\* generateTTSAudio resolves with a buffer of b bytes
SynthOk(i, b) ==
    /\ prog \in {"routes", "part002"} /\ pc = "processing"
    /\ i \in Indices /\ task[i].st = "synth"
    /\ IF returnBase64
       THEN SettleTask(i, "fulfilled", b)
       ELSE /\ task' = [task EXCEPT ![i].st = "upload", ![i].bytes = b]
            /\ sem' = sem
    /\ UNCHANGED <<poolVars, sharedVars, batchVars, jobVars, uploadVars, utilVars>>
    /\ UNCHANGED <<prog, concurrency, returnBase64, audioConfig, audioValidation,
                   pc, fetchI, textChunks, response, timedOut>>

\* generateTTSAudio rejects
SynthFail(i) ==
    /\ prog \in {"routes", "part002"} /\ pc = "processing"
    /\ i \in Indices /\ task[i].st = "synth"
    /\ SettleTask(i, "rejected", 0)
    /\ UNCHANGED <<poolVars, sharedVars, batchVars, jobVars, uploadVars, utilVars>>
    /\ UNCHANGED <<prog, concurrency, returnBase64, audioConfig, audioValidation,
                   pc, fetchI, textChunks, response, timedOut>>

\* uploadAudio resolves with the URL
UploadOk(i) ==
    /\ prog \in {"routes", "part002"} /\ pc = "processing"
    /\ i \in Indices /\ task[i].st = "upload"
    /\ SettleTask(i, "fulfilled", task[i].bytes)
    /\ UNCHANGED <<poolVars, sharedVars, batchVars, jobVars, uploadVars, utilVars>>
    /\ UNCHANGED <<prog, concurrency, returnBase64, audioConfig, audioValidation,
                   pc, fetchI, textChunks, response, timedOut>>

\* uploadAudio rejects
UploadFail(i) ==
    /\ prog \in {"routes", "part002"} /\ pc = "processing"
    /\ i \in Indices /\ task[i].st = "upload"
    /\ SettleTask(i, "rejected", 0)
    /\ UNCHANGED <<poolVars, sharedVars, batchVars, jobVars, uploadVars, utilVars>>
    /\ UNCHANGED <<prog, concurrency, returnBase64, audioConfig, audioValidation,
                   pc, fetchI, textChunks, response, timedOut>>

\* ---- the result collection (routes/tts.js 131-168)
\* Promise.allSettled(processingPromises): one entry per task, in input order
AllSettledResults ==
    [k \in 1..Len(textChunks) |->
        IF task[k - 1].st = "fulfilled"
        THEN [status |-> "fulfilled",
              value |-> [index |-> k - 1, sourceUrl |-> textChunks[k].url,
                         bytesApprox |-> task[k - 1].bytes]]
        ELSE [status |-> "rejected",
              value |-> [index |-> k - 1, sourceUrl |-> 0, bytesApprox |-> 0]]]

RECURSIVE MapValue(_)
MapValue(rs) == IF rs = <<>> THEN <<>> ELSE <<Head(rs).value>> \o MapValue(Tail(rs))

\* (mutant) the comparator with its operands swapped
CompareIndexSwapped(a, b) == b.index - a.index

\* the comparator (a, b) => a.index - b.index
CompareIndex(a, b) == a.index - b.index

RECURSIVE InsertSorted(_, _)
InsertSorted(x, s) ==
    IF s = <<>> THEN <<x>>
    ELSE IF CompareIndex(x, Head(s)) < 0 THEN <<x>> \o s
         ELSE <<Head(s)>> \o InsertSorted(x, Tail(s))

\* Array.prototype.sort with CompareIndex (stable)
RECURSIVE SortByIndex(_)
SortByIndex(s) ==
    IF s = <<>> THEN <<>>
    ELSE InsertSorted(s[Len(s)], SortByIndex(SubSeq(s, 1, Len(s) - 1)))

IsFulfilled(r) == r.status = "fulfilled"

successfulResults(results) ==
    SortByIndex(MapValue(SelectSeq(results, IsFulfilled)))

\* results.map((result, index) => ({ result, index }))
\*        .filter(({ result }) => result.status === 'rejected').map(({ index }) => index)
RECURSIVE RejectedIndices(_, _)
RejectedIndices(results, k) ==
    IF k > Len(results) THEN <<>>
    ELSE (IF results[k].status = "rejected" THEN <<k - 1>> ELSE <<>>)
         \o RejectedIndices(results, k + 1)

\* (mutant) the failed list taken from the fulfilled entries
failedChunksOfFulfilled(results) ==
    RejectedIndices([k \in 1..Len(results) |->
                        [results[k] EXCEPT !.status =
                            IF @ = "rejected" THEN "fulfilled" ELSE "rejected"]], 1)

failedChunks(results) == RejectedIndices(results, 1)

\* (mutant) the check for "nothing succeeded" left out
NoneSucceededNever(ok) == FALSE

\* if (successfulResults.length === 0)
NoneSucceeded(ok) == Len(ok) = 0

RECURSIVE MapBytes(_)
MapBytes(cs) == IF cs = <<>> THEN <<>> ELSE <<Head(cs).bytesApprox>> \o MapBytes(Tail(cs))

BuildResponse(results) ==
    LET ok == successfulResults(results)
        failed == failedChunks(results)
        body == [status |-> 200,
                 count |-> Len(ok),
                 chunks |-> ok,
                 summaryBytesApprox |-> SumSeq(MapBytes(ok))]
    IN  IF NoneSucceeded(ok)
        THEN [status |-> 500, failedChunks |-> failed]
        ELSE IF Len(failed) > 0
             THEN body @@ [warnings |-> [failedChunks |-> failed]]
             ELSE body

\* (mutant) Promise.all in the place of Promise.allSettled: over at the first
\* rejection
PromiseAllOver == 
    \/ \E i \in Indices : task[i].st = "rejected"
    \/ \A i \in Indices : task[i].st = "fulfilled"

\* Promise.allSettled(processingPromises) is over: every task has settled
AllSettledOver == \A i \in Indices : Settled(task[i])

\* the handler after await Promise.allSettled(...); when the 408 has been
\* sent, res.json throws (headers already sent) and so does the catch block
Respond ==
    /\ prog \in {"routes", "part002"} /\ pc = "processing"
    /\ AllSettledOver
    /\ IF timedOut
       THEN /\ response' = response
            /\ pc' = "threw"
       ELSE /\ response' = BuildResponse(AllSettledResults)
            /\ pc' = "responded"
    /\ UNCHANGED <<poolVars, sharedVars, batchVars, jobVars, uploadVars, utilVars>>
    /\ UNCHANGED <<prog, concurrency, returnBase64, audioConfig, audioValidation,
                   fetchI, textChunks, sem, task, timedOut>>

\* req.on('timeout') of the middleware fires while the chunks are processed:
\* the headers are not sent yet, so 408 is sent.  Nothing else is done: the
\* handler, its semaphore and its tasks are not told
RequestTimeout ==
    /\ prog = "routes" /\ pc = "processing"
    /\ ~timedOut
    /\ timedOut' = TRUE
    /\ UNCHANGED <<poolVars, sharedVars, batchVars, jobVars, uploadVars, utilVars>>
    /\ UNCHANGED <<prog, concurrency, returnBase64, audioConfig, audioValidation,
                   pc, fetchI, textChunks, sem, task, response>>

\* ===================================================================
\* ConcurrencyPool (part_020 9-43)
\* ===================================================================
NewPool(max) == [max |-> max, active |-> 0, queue |-> <<>>]

\* enqueue(): the test that runs the task at once
PoolHasRoom(p) == p.active < p.max

\* enqueue(task) of URL u's current chunk: execute() now (this.active++ and
\* the task is called), or a place at the tail of the queue
PoolEnqueue(p, u) ==
    IF PoolHasRoom(p)
    THEN [pool |-> [p EXCEPT !.active = @ + 1], started |-> <<u>>]
    ELSE [pool |-> [p EXCEPT !.queue = Append(@, u)], started |-> <<>>]

\* next(): run the head of the queue if there is room
PoolNext(p) ==
    IF Len(p.queue) > 0 /\ p.active < p.max
    THEN [pool |-> [p EXCEPT !.queue = Tail(@), !.active = @ + 1],
          started |-> <<Head(p.queue)>>]
    ELSE [pool |-> p, started |-> <<>>]

\* execute()'s finally: this.active--; this.next()
PoolFinally(p) == PoolNext([p EXCEPT !.active = @ - 1])

\* ===================================================================
\* processURLsToMergedTTS (part_020 45-78)
\* ===================================================================
Urls == 1..NumUrls

NoPoolResult == [returned |-> FALSE]

\* return { sessionId, chunks, mergedUrl }: the merge when there is more than
\* one chunk (mergeAndUploadChunks has an empty body here), else chunkUrls[0]
PoolReturn(urlsDone) ==
    [returned |-> TRUE,
     chunks |-> urlsDone,
     mergedUrl |-> IF Len(urlsDone) > 1 THEN "undefined"
                   ELSE IF Len(urlsDone) = 1 THEN "chunk" ELSE "undefined"]

\* the body of the map callback for the URLs u..NumUrls, each run up to its
\* first await: a URL without text returns, the others enqueue their chunk 0
RECURSIVE EnqueueFirst(_, _, _)
EnqueueFirst(p, st, u) ==
    IF u > NumUrls THEN [pool |-> p, urlState |-> st]
    ELSE IF ssmlChunks[u] = 0
         THEN EnqueueFirst(p, [st EXCEPT ![u] = "done"], u + 1)
         ELSE LET e == PoolEnqueue(p, u)
              IN  EnqueueFirst(e.pool,
                               [st EXCEPT ![u] = IF e.started # <<>> THEN "synth" ELSE "queued"],
                               u + 1)

\* await Promise.all(...) is over when every URL's callback has returned
PoolFinish(st, pushed) ==
    IF \A u \in Urls : st[u] = "done"
    THEN /\ poolPc' = "returned"
         /\ poolResult' = PoolReturn(pushed)
    ELSE /\ poolPc' = "running"
         /\ poolResult' = poolResult

\* extractTextFromUrls has resolved: the pool is made and the map runs
PoolStart ==
    /\ prog = "part020" /\ poolPc = "start"
    /\ LET r == EnqueueFirst(NewPool(pool.max), urlState, 1)
       IN  /\ pool' = r.pool
           /\ urlState' = r.urlState
           /\ PoolFinish(r.urlState, chunkUrls)
    /\ UNCHANGED <<ssmlChunks, chunkIndex, chunkUrls>>
    /\ UNCHANGED <<prog, chunkedVars, sharedVars, batchVars, jobVars, uploadVars, utilVars>>

\* generateTTS(chunk, index) resolves: r2merged(chunkKey, audio) is called
PoolSynthOk(u) ==
    /\ prog = "part020" /\ poolPc = "running"
    /\ urlState[u] = "synth"
    /\ urlState' = [urlState EXCEPT ![u] = "upload"]
    /\ UNCHANGED <<pool, ssmlChunks, chunkIndex, chunkUrls, poolPc, poolResult>>
    /\ UNCHANGED <<prog, chunkedVars, sharedVars, batchVars, jobVars, uploadVars, utilVars>>

\* URL u's task has settled: execute()'s finally runs (a queued task may
\* start), then the loop of u goes on: it pushes the URL when the task
\* fulfilled, and enqueues its next chunk or returns
PoolTaskSettled(u, ok) ==
    LET f == PoolFinally(pool)
        st1 == IF f.started = <<>> THEN urlState
               ELSE [urlState EXCEPT ![Head(f.started)] = "synth"]
        pushed == IF ok THEN Append(chunkUrls, [url |-> u, index |-> chunkIndex[u]])
                  ELSE chunkUrls
    IN  /\ chunkUrls' = pushed
        /\ IF chunkIndex[u] + 1 < ssmlChunks[u]
           THEN LET e == PoolEnqueue(f.pool, u)
                IN  /\ pool' = e.pool
                    /\ chunkIndex' = [chunkIndex EXCEPT ![u] = @ + 1]
                    /\ urlState' = [st1 EXCEPT ![u] =
                                       IF e.started # <<>> THEN "synth" ELSE "queued"]
                    /\ UNCHANGED <<poolPc, poolResult>>
           ELSE /\ pool' = f.pool
                /\ chunkIndex' = chunkIndex
                /\ urlState' = [st1 EXCEPT ![u] = "done"]
                /\ PoolFinish([st1 EXCEPT ![u] = "done"], pushed)
        /\ UNCHANGED ssmlChunks
        /\ UNCHANGED <<prog, chunkedVars, sharedVars, batchVars, jobVars, uploadVars, utilVars>>

\* generateTTS rejects
PoolSynthFail(u) ==
    /\ prog = "part020" /\ poolPc = "running"
    /\ urlState[u] = "synth"
    /\ PoolTaskSettled(u, FALSE)

\* r2merged resolves with the uploaded URL
PoolUploadOk(u) ==
    /\ prog = "part020" /\ poolPc = "running"
    /\ urlState[u] = "upload"
    /\ PoolTaskSettled(u, TRUE)

\* r2merged rejects
PoolUploadFail(u) ==
    /\ prog = "part020" /\ poolPc = "running"
    /\ urlState[u] = "upload"
    /\ PoolTaskSettled(u, FALSE)

\* ===================================================================
\* Semaphore (part_022 16-39) and const semaphore (part_022 41)
\* ===================================================================
NewSemaphore022(maxConcurrency) == [tasks |-> <<>>, count |-> maxConcurrency]

\* acquire() of chunk id: the count is taken, or resolve waits in tasks
Acquire022(s, id) ==
    IF s.count > 0
    THEN [sem |-> [s EXCEPT !.count = @ - 1], admitted |-> <<id>>]
    ELSE [sem |-> [s EXCEPT !.tasks = Append(@, id)], admitted |-> <<>>]

\* release(): this.count++, and the head of tasks is resolved; its count is
\* not taken
Release022(s) ==
    LET s1 == [s EXCEPT !.count = @ + 1]
    IN  IF Len(s1.tasks) > 0
        THEN [sem |-> [s1 EXCEPT !.tasks = Tail(@)], admitted |-> <<Head(s1.tasks)>>]
        ELSE [sem |-> s1, admitted |-> <<>>]

\* ===================================================================
\* processURLsToMergedTTS (part_022 46-127) and
\* processChunksWithConcurrency (part_022 154-177), with USE_CHATGPT_SSML
\* unset: generateOptimizedSSMLChunks does no network call
\* ===================================================================
Requests == 1..NumRequests
ChunkIdx == 0..(MaxSsmlChunks - 1)

\* a chunk of this call of processChunksWithConcurrency still runs or waits
UrlBusy(t, r, u) == \E k \in ChunkIdx : t[r][u][k] \in {"waiting", "synth", "upload"}

\* chunkResults.filter(url => url !== null), as chunk ids in index order
\* null, as a chunkResults entry
Null == [url |-> 0, index |-> 0]

RECURSIVE ProcessedChunks(_, _)
ProcessedChunks(cr, k) ==
    IF k >= MaxSsmlChunks THEN <<>>
    ELSE (IF cr[k] # <<>> /\ cr[k][Len(cr[k])] # Null
          THEN <<cr[k][Len(cr[k])]>> ELSE <<>>)
         \o ProcessedChunks(cr, k + 1)

\* a callback that pushes its result instead of storing it at its index
WriteChunkResultPush(cr, u, k, ok) ==
    LET free == {j \in DOMAIN cr : cr[j] = <<>>}
        slot == CHOOSE j \in free : \A i \in free : j <= i
    IN  [cr EXCEPT ![slot] = Append(@, IF ok THEN [url |-> u, index |-> k] ELSE Null)]

\* chunkResults[index] = uploadedUrl, or = null in the catch
WriteChunkResult(cr, u, k, ok) ==
    [cr EXCEPT ![k] = Append(@, IF ok THEN [url |-> u, index |-> k] ELSE Null)]

\* chunks.map(async (chunk, index) => { await semaphore.acquire(); ... }):
\* the acquire() of every chunk of the URL, in index order
RECURSIVE AcquireChunks(_, _, _, _, _, _)
AcquireChunks(s, t, r, u, k, n) ==
    IF k >= n THEN [sem |-> s, task |-> t]
    ELSE LET a == Acquire022(s, <<r, u, k>>)
         IN  AcquireChunks(a.sem,
                           [t EXCEPT ![r][u][k] =
                               IF a.admitted # <<>> THEN "synth" ELSE "waiting"],
                           r, u, k + 1, n)

\* the map over extractedTexts for the URLs u..NumUrls of request r: a URL
\* without text is pushed as skipped, the chunks of the others acquire
RECURSIVE StartUrls(_, _, _, _, _, _)
StartUrls(s, t, res, shape, r, u) ==
    IF u > NumUrls THEN [sem |-> s, task |-> t, results |-> res]
    ELSE IF shape[u] = 0
         THEN StartUrls(s, t, Append(res, [url |-> u, status |-> "skipped", chunks |-> <<>>]),
                        shape, r, u + 1)
         ELSE LET a == AcquireChunks(s, t, r, u, 0, shape[u])
              IN  StartUrls(a.sem, a.task, res, shape, r, u + 1)

NoReturn == [returned |-> FALSE]

RECURSIVE TotalChunks(_, _)
TotalChunks(shape, u) == IF u > NumUrls THEN 0 ELSE shape[u] + TotalChunks(shape, u + 1)

\* the texts a call may be given: the number of SSML chunks of each URL
Shapes == {shape \in [Urls -> 0..MaxSsmlChunks] : TotalChunks(shape, 1) <= MaxCallChunks}

\* success: results.every(r => r.status === 'success')
EverySuccess(res) == \A k \in 1..Len(res) : res[k].status = "success"

\* the returned object; mergedUrl is the merged file's URL when there was
\* more than one chunk, else chunkUrls[0] || null
Return022(res, urlsDone, merged) ==
    [returned |-> TRUE,
     success |-> EverySuccess(res),
     results |-> res,
     chunks |-> urlsDone,
     mergedUrl |-> IF Len(urlsDone) > 1 THEN merged
                   ELSE IF Len(urlsDone) = 1 THEN "chunk" ELSE "null"]

\* await Promise.all(extractedTexts.map(...)) of request r is over when no URL
\* of it is busy: the merge starts when there is more than one chunk, else
\* the call returns
AfterUrls(t, r, res, urlsDone) ==
    IF \E u \in Urls : UrlBusy(t, r, u)
    THEN /\ rqPc' = [rqPc EXCEPT ![r] = "running"]
         /\ rqReturn' = rqReturn
    ELSE IF Len(urlsDone) > 1
         THEN /\ rqPc' = [rqPc EXCEPT ![r] = "merging"]
              /\ rqReturn' = rqReturn
         ELSE /\ rqPc' = [rqPc EXCEPT ![r] = "returned"]
              /\ rqReturn' = [rqReturn EXCEPT ![r] = Return022(res, urlsDone, "merged")]

\* processURLsToMergedTTS(urls, sessionId) is called for request r; shape
\* gives the number of SSML chunks of each URL's text
CallProcessURLs(r, shape) ==
    /\ prog = "part022" /\ rqPc[r] = "idle"
    /\ LET a == StartUrls(semaphore, rqTask, <<>>, shape, r, 1)
       IN  /\ semaphore' = a.sem
           /\ rqTask' = a.task
           /\ rqResults' = [rqResults EXCEPT ![r] = a.results]
           /\ rqChunks' = [rqChunks EXCEPT ![r] = shape]
           /\ AfterUrls(a.task, r, a.results, <<>>)
    /\ UNCHANGED <<MAX_CONCURRENCY, chunkResults, rqChunkUrls>>
    /\ UNCHANGED <<prog, chunkedVars, poolVars, batchVars, jobVars, uploadVars, utilVars>>

\* generateTTS(chunk) resolves: r2merged(chunkKey, audioBuffer) is called
Synth022Ok(r, u, k) ==
    /\ prog = "part022" /\ rqTask[r][u][k] = "synth"
    /\ rqTask' = [rqTask EXCEPT ![r][u][k] = "upload"]
    /\ UNCHANGED <<MAX_CONCURRENCY, semaphore, rqPc, rqChunks, chunkResults, rqChunkUrls,
                   rqResults, rqReturn>>
    /\ UNCHANGED <<prog, chunkedVars, poolVars, batchVars, jobVars, uploadVars, utilVars>>

\* chunk (r, u, k) has settled: chunkResults[index] is written, finally
\* releases the semaphore (a waiting chunk may start); when it was the URL's
\* last chunk the URL's callback pushes its chunks and its result
Settle022(r, u, k, ok) ==
    LET rel == Release022(semaphore)
        t1 == [rqTask EXCEPT ![r][u][k] = IF ok THEN "ok" ELSE "failed"]
        t2 == IF rel.admitted = <<>> THEN t1
              ELSE LET id == Head(rel.admitted)
                   IN  [t1 EXCEPT ![id[1]][id[2]][id[3]] = "synth"]
        urlOver == ~UrlBusy(t2, r, u)
        cr == WriteChunkResult(chunkResults[r][u], u, k, ok)
        processed == ProcessedChunks(cr, 0)
        urlsDone == IF urlOver THEN rqChunkUrls[r] \o processed ELSE rqChunkUrls[r]
        res == IF urlOver
               THEN Append(rqResults[r], [url |-> u, status |-> "success", chunks |-> processed])
               ELSE rqResults[r]
    IN  /\ semaphore' = rel.sem
        /\ rqTask' = t2
        /\ chunkResults' = [chunkResults EXCEPT ![r][u] = cr]
        /\ rqChunkUrls' = [rqChunkUrls EXCEPT ![r] = urlsDone]
        /\ rqResults' = [rqResults EXCEPT ![r] = res]
        /\ AfterUrls(t2, r, res, urlsDone)
        /\ UNCHANGED <<MAX_CONCURRENCY, rqChunks>>
        /\ UNCHANGED <<prog, chunkedVars, poolVars, batchVars, jobVars, uploadVars, utilVars>>

\* generateTTS rejects
Synth022Fail(r, u, k) ==
    /\ prog = "part022" /\ rqTask[r][u][k] = "synth"
    /\ Settle022(r, u, k, FALSE)

\* r2merged resolves with the uploaded URL
Upload022Ok(r, u, k) ==
    /\ prog = "part022" /\ rqTask[r][u][k] = "upload"
    /\ Settle022(r, u, k, TRUE)

\* r2merged rejects
Upload022Fail(r, u, k) ==
    /\ prog = "part022" /\ rqTask[r][u][k] = "upload"
    /\ Settle022(r, u, k, FALSE)

\* mergeAndUploadChunks resolves with the merged URL, or throws
Merge022(r, ok) ==
    /\ prog = "part022" /\ rqPc[r] = "merging"
    /\ IF ok
       THEN /\ rqPc' = [rqPc EXCEPT ![r] = "returned"]
            /\ rqReturn' = [rqReturn EXCEPT ![r] =
                               Return022(rqResults[r], rqChunkUrls[r], "merged")]
       ELSE /\ rqPc' = [rqPc EXCEPT ![r] = "rejected"]
            /\ rqReturn' = rqReturn
    /\ UNCHANGED <<MAX_CONCURRENCY, semaphore, rqChunks, rqTask, chunkResults, rqChunkUrls,
                   rqResults>>
    /\ UNCHANGED <<prog, chunkedVars, poolVars, batchVars, jobVars, uploadVars, utilVars>>

\* ===================================================================
\* app.post('/tts/chunked') (part_019 171-234): the batch loop
\* ===================================================================
Min(a, b) == IF a < b THEN a ELSE b

\* chunks.slice(i, i + concurrency), as chunk indices
Batch(i) == {k \in 0..(bChunks - 1) : i <= k /\ k < i + bConcurrency}

\* batch.map(... processChunk(chunk, chunkIndex, ...)): every call of the
\* batch is made, textToSpeech first
StartBatch(t, i) == [k \in DOMAIN t |-> IF k \in Batch(i) THEN "synth" ELSE t[k]]

RECURSIVE IndexSeq(_, _)
IndexSeq(from, to) == IF from > to THEN <<>> ELSE <<from>> \o IndexSeq(from + 1, to)

\* res.json({ count, chunks: results, ... })
BatchOkResponse(results) == [status |-> 200, count |-> Len(results), chunks |-> results]

\* the handler up to the first await: the text is split and the first batch
\* is started; without chunks the loop is skipped and the answer is sent
BatchRequest(n) ==
    /\ prog = "part019" /\ bPc = "start"
    /\ bChunks' = n
    /\ bI' = 0
    /\ bResults' = <<>>
    /\ IF n = 0
       THEN /\ bTask' = bTask
            /\ bPc' = "responded"
            /\ bResponse' = BatchOkResponse(<<>>)
       ELSE /\ bTask' = [k \in 0..(n - 1) |->
                            IF k < bConcurrency THEN "synth" ELSE "none"]
            /\ bPc' = "loop"
            /\ bResponse' = bResponse
    /\ UNCHANGED bConcurrency
    /\ UNCHANGED <<prog, chunkedVars, poolVars, sharedVars, jobVars, uploadVars, utilVars>>

\* textToSpeech of chunk k resolves: uploadToR2 is called
BatchSynthOk(k) ==
    /\ prog = "part019" /\ bPc \in {"loop", "responded"}
    /\ k \in DOMAIN bTask /\ bTask[k] = "synth"
    /\ bTask' = [bTask EXCEPT ![k] = "upload"]
    /\ UNCHANGED <<bConcurrency, bChunks, bI, bResults, bPc, bResponse>>
    /\ UNCHANGED <<prog, chunkedVars, poolVars, sharedVars, jobVars, uploadVars, utilVars>>

\* processChunk of chunk k resolves.  When it was the last of its batch,
\* await Promise.all(promises) is over: the batch is pushed and the next one
\* is started, or the answer is sent
BatchChunkOk(k) ==
    /\ prog = "part019" /\ bPc \in {"loop", "responded"}
    /\ k \in DOMAIN bTask /\ bTask[k] = "upload"
    /\ LET t1 == [bTask EXCEPT ![k] = "ok"]
           batchOver == \A j \in Batch(bI) : t1[j] = "ok"
           next == bI + bConcurrency
           pushed == bResults \o IndexSeq(bI, Min(next, bChunks) - 1)
       IN  IF bPc = "loop" /\ batchOver
           THEN /\ bResults' = pushed
                /\ bI' = next
                /\ IF next < bChunks
                   THEN /\ bTask' = StartBatch(t1, next)
                        /\ UNCHANGED <<bPc, bResponse>>
                   ELSE /\ bTask' = t1
                        /\ bPc' = "responded"
                        /\ bResponse' = BatchOkResponse(pushed)
           ELSE /\ bTask' = t1
                /\ UNCHANGED <<bI, bResults, bPc, bResponse>>
    /\ UNCHANGED <<bConcurrency, bChunks>>
    /\ UNCHANGED <<prog, chunkedVars, poolVars, sharedVars, jobVars, uploadVars, utilVars>>

\* processChunk of chunk k rejects (textToSpeech or uploadToR2 threw):
\* Promise.all rejects at once and the catch block answers 500; the other
\* calls of the batch go on
BatchChunkFail(k) ==
    /\ prog = "part019" /\ bPc \in {"loop", "responded"}
    /\ k \in DOMAIN bTask /\ bTask[k] \in {"synth", "upload"}
    /\ bTask' = [bTask EXCEPT ![k] = "failed"]
    /\ IF bPc = "loop"
       THEN /\ bPc' = "responded"
            /\ bResponse' = [status |-> 500, count |-> 0, chunks |-> <<>>]
       ELSE UNCHANGED <<bPc, bResponse>>
    /\ UNCHANGED <<bConcurrency, bChunks, bI, bResults>>
    /\ UNCHANGED <<prog, chunkedVars, poolVars, sharedVars, jobVars, uploadVars, utilVars>>

\* ===================================================================
\* The job pipeline (routes/tts.js 400-613; part_006 128-314 is the same)
\* ===================================================================
Sessions == 1..NumSessions

\* job.resultKey before it is set, and `${sessionId}/final.mp3`
NoKey == [session |-> 0, file |-> ""]
FinalKey(sid) == [session |-> sid, file |-> "final.mp3"]

NoJob == [status |-> "absent", progress |-> 0, error |-> FALSE, resultKey |-> NoKey]

\* pLimit(TTS_CONCURRENCY)
NewLimit == [activeCount |-> 0, queue |-> <<>>]

\* limit(fn) for the chunks k..n-1 in order: fn runs while fewer than
\* TTS_CONCURRENCY run, else it waits in the limiter's queue
RECURSIVE LimitAll(_, _, _, _)
LimitAll(l, t, k, n) ==
    IF k >= n THEN [limit |-> l, task |-> t]
    ELSE IF l.activeCount < TTS_CONCURRENCY
         THEN LimitAll([l EXCEPT !.activeCount = @ + 1], [t EXCEPT ![k] = "synth"], k + 1, n)
         ELSE LimitAll([l EXCEPT !.queue = Append(@, k)], [t EXCEPT ![k] = "queued"], k + 1, n)

\* the limiter when a task has settled: the next queued task runs
LimitNext(l) ==
    LET l1 == [l EXCEPT !.activeCount = @ - 1]
    IN  IF Len(l1.queue) > 0
        THEN [limit |-> [l1 EXCEPT !.queue = Tail(@), !.activeCount = @ + 1],
              started |-> <<Head(l1.queue)>>]
        ELSE [limit |-> l1, started |-> <<>>]

\* new Array(chunks.length): no slot is written
NewBuffers(n) == [k \in 0..(n - 1) |-> <<>>]

\* a limiter task that stores its audio at the first slot not yet written
WriteBufferFirstFree(b, idx) ==
    LET free == {k \in DOMAIN b : b[k] = <<>>}
        slot == CHOOSE k \in free : \A j \in free : k <= j
    IN  [b EXCEPT ![slot] = Append(@, idx)]

\* buffers[idx] = Buffer.from(resp.audioContent, "base64") in the task of
\* chunk idx: the audio of c.text, named here by the chunk's position idx
WriteBuffer(b, idx) == [b EXCEPT ![idx] = Append(@, idx)]

\* Math.round(((idx + 1) / chunks.length) * 100)
Progress(idx, n) == (200 * (idx + 1) + n) \div (2 * n)

\* the .catch of POST /: j.status = "error"; j.error = err.message
JobFailed(sid) ==
    /\ jobs' = [jobs EXCEPT ![sid].status = "error", ![sid].error = TRUE]
    /\ jobPc' = [jobPc EXCEPT ![sid] = "failed"]

\* a POST handler that starts a job again when its last run ended in error
JobsHasUnlessError(sid) == jobs[sid] # NoJob /\ jobs[sid].status # "error"

\* a POST handler that does not consult the job store
JobsHasNever(sid) == FALSE

\* jobs.has(sessionId)
JobsHas(sid) == jobs[sid] # NoJob

\* jobs.set(sessionId, { status: "queued", progress: 0 })
QueuedJob == [status |-> "queued", progress |-> 0, error |-> FALSE, resultKey |-> NoKey]

\* synthesizeAllChunks up to its first await: job.status = "running"
StartRun(job) == [job EXCEPT !.status = "running"]

\* res.status(202).json({ statusUrl, resultUrl })
PostResponse(sid) ==
    [status |-> 202,
     statusUrl |-> <<"/api/tts", sid, "status">>,
     resultUrl |-> <<"/api/tts", sid, "audio">>]

\* router.post("/"): a sessionId not in the job store gets a queued job and
\* synthesizeAllChunks is called, which runs to its first await: the job is
\* running and listChunkTexts is fetching.  A known sessionId starts nothing.
\* Either way the answer is 202.
PostJob(sid) ==
    /\ prog = "jobs"
    /\ IF ~JobsHas(sid)
       THEN /\ jobs' = [jobs EXCEPT ![sid] = StartRun(QueuedJob)]
            /\ jobPc' = [jobPc EXCEPT ![sid] = "listing"]
            /\ jobRuns' = [jobRuns EXCEPT ![sid] = @ + 1]
       ELSE UNCHANGED <<jobs, jobPc, jobRuns>>
    /\ postFound' = [session |-> sid, status |-> jobs[sid].status]
    /\ jobRes' = PostResponse(sid)
    /\ UNCHANGED <<TTS_CONCURRENCY, jobChunks, jobTask, limit, buffers, bucket>>
    /\ UNCHANGED <<prog, chunkedVars, poolVars, sharedVars, batchVars, uploadVars, utilVars>>

\* router.post("/") without a sessionId in the body
PostNoSession ==
    /\ prog = "jobs"
    /\ jobRes' = [status |-> 400, error |-> "sessionId is required"]
    /\ UNCHANGED <<TTS_CONCURRENCY, jobs, jobPc, jobChunks, jobTask, limit, buffers, jobRuns,
                   postFound, bucket>>
    /\ UNCHANGED <<prog, chunkedVars, poolVars, sharedVars, batchVars, uploadVars, utilVars>>

\* router.get("/:sessionId/status"): 404 for an unknown sessionId, else the job
StatusResponse(sid) ==
    IF jobs[sid] = NoJob
    THEN [status |-> 404, error |-> "unknown sessionId"]
    ELSE [status |-> 200, job |-> jobs[sid]]

GetStatus(sid) ==
    /\ prog = "jobs"
    /\ jobRes' = StatusResponse(sid)
    /\ UNCHANGED <<TTS_CONCURRENCY, jobs, jobPc, jobChunks, jobTask, limit, buffers, jobRuns,
                   postFound, bucket>>
    /\ UNCHANGED <<prog, chunkedVars, poolVars, sharedVars, batchVars, uploadVars, utilVars>>

\* an audio handler that only tests whether the job is known
AudioNotReadyUnknownOnly(sid) == jobs[sid] = NoJob

\* !job || job.status !== "done"
AudioNotReady(sid) == jobs[sid] = NoJob \/ jobs[sid].status # "done"

\* router.get("/:sessionId/audio"): 404 unless the job is done; else the
\* object job.resultKey is fetched and piped.  When s3.send rejects, the
\* async handler's rejection is not handled and nothing is answered
AudioResponse(sid, s3ok) ==
    IF AudioNotReady(sid)
    THEN [status |-> 404, error |-> "audio not ready"]
    ELSE IF s3ok /\ jobs[sid].resultKey \in bucket
         THEN [status |-> 200, audio |-> jobs[sid].resultKey]
         ELSE NoResponse

GetAudio(sid, s3ok) ==
    /\ prog = "jobs"
    /\ jobRes' = AudioResponse(sid, s3ok)
    /\ UNCHANGED <<TTS_CONCURRENCY, jobs, jobPc, jobChunks, jobTask, limit, buffers, jobRuns,
                   postFound, bucket>>
    /\ UNCHANGED <<prog, chunkedVars, poolVars, sharedVars, batchVars, uploadVars, utilVars>>

\* listChunkTexts resolves with n chunks: the limiter is made and every chunk
\* is handed to it; with no chunk Promise.all is over at once and the merge
\* starts
ListChunksOk(sid, n) ==
    /\ prog = "jobs" /\ jobPc[sid] = "listing"
    /\ LET r == LimitAll(NewLimit, [k \in 0..(n - 1) |-> "none"], 0, n)
       IN  /\ limit' = [limit EXCEPT ![sid] = r.limit]
           /\ jobTask' = [jobTask EXCEPT ![sid] = r.task]
    /\ jobChunks' = [jobChunks EXCEPT ![sid] = n]
    /\ buffers' = [buffers EXCEPT ![sid] = NewBuffers(n)]
    /\ jobPc' = [jobPc EXCEPT ![sid] = IF n = 0 THEN "merging" ELSE "synth"]
    /\ UNCHANGED <<TTS_CONCURRENCY, jobs, jobRuns, postFound, jobRes, bucket>>
    /\ UNCHANGED <<prog, chunkedVars, poolVars, sharedVars, batchVars, uploadVars, utilVars>>

\* listChunkTexts throws (no chunk-1.txt, a fetch that fails or times out)
ListChunksFail(sid) ==
    /\ prog = "jobs" /\ jobPc[sid] = "listing"
    /\ JobFailed(sid)
    /\ UNCHANGED <<TTS_CONCURRENCY, jobChunks, jobTask, limit, buffers, jobRuns, postFound, jobRes, bucket>>
    /\ UNCHANGED <<prog, chunkedVars, poolVars, sharedVars, batchVars, uploadVars, utilVars>>

\* the limiter after the task of chunk idx has settled with outcome st
TaskSettled(sid, idx, st) ==
    LET r == LimitNext(limit[sid])
        t1 == [jobTask[sid] EXCEPT ![idx] = st]
    IN  /\ limit' = [limit EXCEPT ![sid] = r.limit]
        /\ jobTask' = [jobTask EXCEPT ![sid] =
                          IF r.started = <<>> THEN t1
                          ELSE [t1 EXCEPT ![Head(r.started)] = "synth"]]

\* synthesizeSpeech of chunk idx resolves: buffers[idx] and job.progress are
\* written.  When it was the last task, await Promise.all is over and
\* mergeMp3WithFfmpeg is called
JobSynthOk(sid, idx) ==
    /\ prog = "jobs" /\ jobPc[sid] \in {"synth", "failed"}
    /\ idx \in DOMAIN jobTask[sid] /\ jobTask[sid][idx] = "synth"
    /\ TaskSettled(sid, idx, "ok")
    /\ buffers' = [buffers EXCEPT ![sid] = WriteBuffer(@, idx)]
    /\ jobs' = [jobs EXCEPT ![sid].progress = Progress(idx, jobChunks[sid])]
    /\ jobPc' = [jobPc EXCEPT ![sid] =
                    IF @ = "synth" /\ \A k \in DOMAIN jobTask[sid] \ {idx} :
                                          jobTask[sid][k] = "ok"
                    THEN "merging" ELSE @]
    /\ UNCHANGED <<TTS_CONCURRENCY, jobChunks, jobRuns, postFound, jobRes, bucket>>
    /\ UNCHANGED <<prog, chunkedVars, poolVars, sharedVars, batchVars, uploadVars, utilVars>>

\* synthesizeSpeech of chunk idx rejects: Promise.all rejects at its first
\* rejection, synthesizeAllChunks throws and the .catch marks the job
JobSynthFail(sid, idx) ==
    /\ prog = "jobs" /\ jobPc[sid] \in {"synth", "failed"}
    /\ idx \in DOMAIN jobTask[sid] /\ jobTask[sid][idx] = "synth"
    /\ TaskSettled(sid, idx, "failed")
    /\ IF jobPc[sid] = "synth" THEN JobFailed(sid) ELSE UNCHANGED <<jobs, jobPc>>
    /\ UNCHANGED <<TTS_CONCURRENCY, jobChunks, buffers, jobRuns, postFound, jobRes, bucket>>
    /\ UNCHANGED <<prog, chunkedVars, poolVars, sharedVars, batchVars, uploadVars, utilVars>>

\* mergeMp3WithFfmpeg resolves (the PutObject is sent) or rejects
JobMerge(sid, ok) ==
    /\ prog = "jobs" /\ jobPc[sid] = "merging"
    /\ IF ok
       THEN /\ jobPc' = [jobPc EXCEPT ![sid] = "uploading"]
            /\ jobs' = jobs
       ELSE JobFailed(sid)
    /\ UNCHANGED <<TTS_CONCURRENCY, jobChunks, jobTask, limit, buffers, jobRuns, postFound, jobRes, bucket>>
    /\ UNCHANGED <<prog, chunkedVars, poolVars, sharedVars, batchVars, uploadVars, utilVars>>

\* s3.send(PutObjectCommand) resolves: job.status = "done" and job.resultKey
\* is set; or it rejects
JobUpload(sid, ok) ==
    /\ prog = "jobs" /\ jobPc[sid] = "uploading"
    /\ IF ok
       THEN /\ jobPc' = [jobPc EXCEPT ![sid] = "finished"]
            /\ jobs' = [jobs EXCEPT ![sid].status = "done",
                                    ![sid].resultKey = FinalKey(sid)]
            /\ bucket' = bucket \cup {FinalKey(sid)}
       ELSE JobFailed(sid) /\ bucket' = bucket
    /\ UNCHANGED <<TTS_CONCURRENCY, jobChunks, jobTask, limit, buffers, jobRuns, postFound, jobRes>>
    /\ UNCHANGED <<prog, chunkedVars, poolVars, sharedVars, batchVars, uploadVars, utilVars>>

\* ===================================================================
\* uploadToR2 (utils/r2.js 23-131): one call, with its bucket configured.
\* uploadLimit lets up to 3 calls run; a single call starts at once
\* ===================================================================
RECURSIVE Pow2(_)
Pow2(n) == IF n = 0 THEN 1 ELSE 2 * Pow2(n - 1)

\* a backoff that starts at one second
BackoffFromOneSecond(a) == Min(1000 * Pow2(a - 1), 10000)

\* Math.min(1000 * Math.pow(2, attempt), 10000)
Backoff(a) == Min(1000 * Pow2(a), 10000)

\* the error an attempt ends with: the rejection of r2Client.send, or the
\* rejection of the 90 seconds timer
AttemptError(a, kind) == [attempt |-> a, kind |-> kind, message |-> <<kind, a>>]

NoError == [attempt |-> 0, kind |-> "none", message |-> <<>>]

\* a final error that does not carry the attempt's error
FinalErrorNoCause(error, n) ==
    [message |-> <<"R2 upload failed after", n, "attempts", <<>>>>,
     originalError |-> NoError,
     attempts |-> n]

\* finalError: new Error(`R2 upload failed after ${maxRetries} attempts:
\* ${error.message}`) with originalError and attempts
FinalError(error, n) ==
    [message |-> <<"R2 upload failed after", n, "attempts", error.message>>,
     originalError |-> error,
     attempts |-> n]

NoUpload == [returned |-> FALSE, thrown |-> FALSE]

\* uploadToR2(key, body, contentType, n): the loop is entered and the first
\* PutObject is sent; with n < 1 the loop is skipped and undefined returned
UploadCall ==
    /\ prog = "r2" /\ upPc = "start"
    /\ IF maxRetries >= 1
       THEN /\ attempt' = 1
            /\ upPc' = "racing"
            /\ upLog' = <<[attempt |-> 1, outcome |-> "started"]>>
            /\ upSends' = {1}
            /\ upResult' = upResult
       ELSE /\ upPc' = "returned"
            /\ upResult' = [returned |-> TRUE, thrown |-> FALSE, url |-> "undefined"]
            /\ UNCHANGED <<attempt, upLog, upSends>>
    /\ UNCHANGED <<maxRetries, upWaits>>
    /\ UNCHANGED <<prog, chunkedVars, poolVars, sharedVars, batchVars, jobVars, utilVars>>

\* r2Client.send resolves before the timer: the public URL is returned
AttemptOk ==
    /\ prog = "r2" /\ upPc = "racing"
    /\ upPc' = "returned"
    /\ upLog' = [upLog EXCEPT ![attempt].outcome = "ok"]
    /\ upSends' = upSends \ {attempt}
    /\ upResult' = [returned |-> TRUE, thrown |-> FALSE, url |-> "publicUrl"]
    /\ UNCHANGED <<maxRetries, attempt, upWaits>>
    /\ UNCHANGED <<prog, chunkedVars, poolVars, sharedVars, batchVars, jobVars, utilVars>>

\* the catch block for the attempt's error: the final error is thrown after
\* the last attempt, else the backoff timer is set
CatchAttempt(error) ==
    /\ upLog' = [upLog EXCEPT ![attempt].outcome = error.kind]
    /\ IF attempt = maxRetries
       THEN /\ upPc' = "thrown"
            /\ upResult' = [returned |-> FALSE, thrown |-> TRUE,
                            error |-> FinalError(error, maxRetries)]
            /\ upWaits' = upWaits
       ELSE /\ upPc' = "backoff"
            /\ upWaits' = Append(upWaits, Backoff(attempt))
            /\ upResult' = upResult
    /\ UNCHANGED <<maxRetries, attempt>>
    /\ UNCHANGED <<prog, chunkedVars, poolVars, sharedVars, batchVars, jobVars, utilVars>>

\* r2Client.send rejects before the timer, with a transient error (network,
\* 5xx) or a permanent one (credentials, permission, malformed key)
AttemptFail(kind) ==
    /\ prog = "r2" /\ upPc = "racing"
    /\ upSends' = upSends \ {attempt}
    /\ CatchAttempt(AttemptError(attempt, kind))

\* the 90 seconds timer fires first: the race rejects; the request of the
\* attempt is not aborted and stays outstanding
AttemptTimeout ==
    /\ prog = "r2" /\ upPc = "racing"
    /\ upSends' = upSends
    /\ CatchAttempt(AttemptError(attempt, "timeout"))

\* the backoff timer fires: the loop goes on with the next attempt
BackoffOver ==
    /\ prog = "r2" /\ upPc = "backoff"
    /\ attempt' = attempt + 1
    /\ upPc' = "racing"
    /\ upLog' = Append(upLog, [attempt |-> attempt + 1, outcome |-> "started"])
    /\ upSends' = upSends \cup {attempt + 1}
    /\ UNCHANGED <<maxRetries, upWaits, upResult>>
    /\ UNCHANGED <<prog, chunkedVars, poolVars, sharedVars, batchVars, jobVars, utilVars>>

\* the request of an attempt that was abandoned by the timer settles
AbandonedSendSettles(a) ==
    /\ prog = "r2"
    /\ a \in upSends /\ (a # attempt \/ upPc # "racing")
    /\ upSends' = upSends \ {a}
    /\ UNCHANGED <<maxRetries, attempt, upPc, upLog, upWaits, upResult>>
    /\ UNCHANGED <<prog, chunkedVars, poolVars, sharedVars, batchVars, jobVars, utilVars>>

\* ===================================================================
\* uploadMultipleToR2 (utils/r2.js 134-217)
\* ===================================================================
\* uploadToR2's default for maxRetries (r2.js 51)
DefaultMaxRetries == 3

NoMuResult == [index |-> -1, success |-> FALSE]

\* what the mapper of upload `index` returns (r2.js 154-173)
MapperResult(index, success) == [index |-> index, success |-> success]

\* results.filter(r => r.success)
Successful(results) == SelectSeq(results, LAMBDA r : r.success)

\* (mutant) a failed list that holds every result
FailedAll(results) == results

\* results.filter(r => !r.success)
Failed(results) == SelectSeq(results, LAMBDA r : ~r.success)

NoMuReturn == [returned |-> FALSE, successful |-> <<>>, failed |-> <<>>]

MuSettled(i) == muTask[i].result # NoMuResult

\* uploads.map(async (upload, index) => ...): every mapper runs up to its
\* await, i.e. calls uploadToR2, whose first attempt is sent
MultiCall ==
    /\ prog = "r2multi" /\ muPc = "start"
    /\ muTask' = [i \in 1..muN |-> [attempt |-> 1, result |-> NoMuResult]]
    /\ muPc' = "running"
    /\ UNCHANGED <<muN, muReturn>>
    /\ UNCHANGED exceptMulti

\* an attempt of upload i-1 succeeds: uploadToR2 returns the URL
MultiAttemptOk(i) ==
    /\ prog = "r2multi" /\ muPc = "running"
    /\ i \in 1..muN /\ ~MuSettled(i)
    /\ muTask' = [muTask EXCEPT ![i].result = MapperResult(i - 1, TRUE)]
    /\ UNCHANGED <<muN, muPc, muReturn>>
    /\ UNCHANGED exceptMulti

\* an attempt of upload i-1 fails: uploadToR2 tries again, or throws after
\* its last attempt and the mapper's catch returns the failure
MultiAttemptFail(i) ==
    /\ prog = "r2multi" /\ muPc = "running"
    /\ i \in 1..muN /\ ~MuSettled(i)
    /\ muTask' = IF muTask[i].attempt = DefaultMaxRetries
                 THEN [muTask EXCEPT ![i].result = MapperResult(i - 1, FALSE)]
                 ELSE [muTask EXCEPT ![i].attempt = @ + 1]
    /\ UNCHANGED <<muN, muPc, muReturn>>
    /\ UNCHANGED exceptMulti

\* Promise.all resolves; the results are split and returned
MultiReturn ==
    /\ prog = "r2multi" /\ muPc = "running"
    /\ \A i \in 1..muN : MuSettled(i)
    /\ LET results == [i \in 1..muN |-> muTask[i].result]
       IN  muReturn' = [returned |-> TRUE, successful |-> Successful(results),
                        failed |-> Failed(results)]
    /\ muPc' = "returned"
    /\ UNCHANGED <<muN, muTask>>
    /\ UNCHANGED exceptMulti

\* ===================================================================
\* The sentence-accumulating chunkers: chunkTextForTTS (part_002 189-240),
\* chunkText (textProcessor.js 124-151), splitTextIntoChunks
\* (ttsProcessor.js 59-87).  A string is a sequence of characters.
\* ===================================================================
\* string.split(/[.!?]+/): the pieces between the runs of terminators
RECURSIVE SplitSentences(_, _, _)
SplitSentences(t, cur, acc) ==
    IF t = <<>> THEN Append(acc, cur)
    ELSE IF Head(t) \in {".", "!", "?"}
    THEN LET rest == Tail(t)
         IN  IF rest # <<>> /\ Head(rest) \in {".", "!", "?"}
             THEN SplitSentences(rest, cur, acc)
             ELSE SplitSentences(rest, <<>>, Append(acc, cur))
    ELSE SplitSentences(Tail(t), Append(cur, Head(t)), acc)

\* string.split(' '): the pieces between the single spaces
RECURSIVE SplitWords(_, _, _)
SplitWords(t, cur, acc) ==
    IF t = <<>> THEN Append(acc, cur)
    ELSE IF Head(t) = " "
    THEN SplitWords(Tail(t), <<>>, Append(acc, cur))
    ELSE SplitWords(Tail(t), Append(cur, Head(t)), acc)

RECURSIVE TrimStart(_)
TrimStart(t) == IF t # <<>> /\ Head(t) = " " THEN TrimStart(Tail(t)) ELSE t

RECURSIVE TrimEnd(_)
TrimEnd(t) ==
    IF t # <<>> /\ t[Len(t)] = " " THEN TrimEnd(SubSeq(t, 1, Len(t) - 1)) ELSE t

\* string.trim()
Trim(t) == TrimEnd(TrimStart(t))

\* text.split(/[.!?]+/).filter(s => s.trim().length > 0)
Sentences(text) ==
    SelectSeq(SplitSentences(text, <<>>, <<>>), LAMBDA x : Len(Trim(x)) > 0)

\* the loop of chunkText over the sentences
RECURSIVE chunkTextLoop(_, _, _, _)
chunkTextLoop(sentences, chunks, currentChunk, maxLength) ==
    IF sentences = <<>>
    THEN IF currentChunk # <<>> THEN Append(chunks, currentChunk \o <<".">>) ELSE chunks
    ELSE LET trimmedSentence == Trim(Head(sentences))
         IN  IF Len(currentChunk) + Len(trimmedSentence) + 1 <= maxLength
             THEN chunkTextLoop(Tail(sentences), chunks,
                      currentChunk \o (IF currentChunk # <<>> THEN <<".", " ">> ELSE <<>>)
                                   \o trimmedSentence,
                      maxLength)
             ELSE chunkTextLoop(Tail(sentences),
                      IF currentChunk # <<>> THEN Append(chunks, currentChunk \o <<".">>)
                                             ELSE chunks,
                      trimmedSentence, maxLength)

\* chunkText(text, maxLength)
chunkText(text, maxLength) ==
    IF text = <<>> THEN <<>>
    ELSE chunkTextLoop(Sentences(text), <<>>, <<>>, maxLength)

\* the loop of chunkTextForTTS over the words of a sentence longer than
\* maxLength: [chunks, wordChunk]
RECURSIVE wordLoop(_, _, _, _)
wordLoop(words, chunks, wordChunk, maxLength) ==
    IF words = <<>> THEN [chunks |-> chunks, wordChunk |-> wordChunk]
    ELSE LET word == Head(words)
         IN  IF Len(wordChunk) + Len(word) + 1 <= maxLength
             THEN wordLoop(Tail(words), chunks,
                      wordChunk \o (IF wordChunk # <<>> THEN <<" ">> ELSE <<>>) \o word,
                      maxLength)
             ELSE wordLoop(Tail(words),
                      IF wordChunk # <<>> THEN Append(chunks, wordChunk) ELSE chunks,
                      word, maxLength)

\* the loop of chunkTextForTTS over the sentences
RECURSIVE chunkTextForTTSLoop(_, _, _, _)
chunkTextForTTSLoop(sentences, chunks, currentChunk, maxLength) ==
    IF sentences = <<>>
    THEN IF currentChunk # <<>> THEN Append(chunks, currentChunk \o <<".">>) ELSE chunks
    ELSE LET trimmedSentence == Trim(Head(sentences))
         IN  IF Len(currentChunk) + Len(trimmedSentence) + 1 <= maxLength
             THEN chunkTextForTTSLoop(Tail(sentences), chunks,
                      currentChunk \o (IF currentChunk # <<>> THEN <<".", " ">> ELSE <<>>)
                                   \o trimmedSentence,
                      maxLength)
             ELSE LET pushed == IF currentChunk # <<>>
                                THEN Append(chunks, currentChunk \o <<".">>)
                                ELSE chunks
                  IN  IF Len(trimmedSentence) > maxLength
                      THEN LET w == wordLoop(SplitWords(trimmedSentence, <<>>, <<>>),
                                             pushed, <<>>, maxLength)
                           IN  chunkTextForTTSLoop(Tail(sentences), w.chunks, w.wordChunk,
                                                   maxLength)
                      ELSE chunkTextForTTSLoop(Tail(sentences), pushed, trimmedSentence,
                                               maxLength)

\* chunkTextForTTS(text, maxLength)
chunkTextForTTS(text, maxLength) ==
    IF text = <<>> THEN <<>>
    ELSE SelectSeq(chunkTextForTTSLoop(Sentences(text), <<>>, <<>>, maxLength),
                   LAMBDA chunk : Len(Trim(chunk)) > 0)

\* the loop of splitTextIntoChunks over the sentences
RECURSIVE splitTextLoop(_, _, _, _)
splitTextLoop(sentences, chunks, currentChunk, maxChunkSize) ==
    IF sentences = <<>>
    THEN IF currentChunk # <<>> THEN Append(chunks, currentChunk \o <<".">>) ELSE chunks
    ELSE LET trimmedSentence == Trim(Head(sentences))
             potentialChunk == currentChunk
                                  \o (IF currentChunk # <<>> THEN <<".", " ">> ELSE <<>>)
                                  \o trimmedSentence
         IN  IF Len(potentialChunk) <= maxChunkSize
             THEN splitTextLoop(Tail(sentences), chunks, potentialChunk, maxChunkSize)
             ELSE IF currentChunk # <<>>
             THEN splitTextLoop(Tail(sentences), Append(chunks, currentChunk \o <<".">>),
                                trimmedSentence, maxChunkSize)
             ELSE splitTextLoop(Tail(sentences), Append(chunks, trimmedSentence \o <<".">>),
                                <<>>, maxChunkSize)

\* splitTextIntoChunks(text, maxChunkSize)
splitTextIntoChunks(text, maxChunkSize) ==
    SelectSeq(splitTextLoop(Sentences(text), <<>>, <<>>, maxChunkSize),
              LAMBDA chunk : Len(Trim(chunk)) > 0)

Chunkers == {"chunkTextForTTS", "chunkText", "splitTextIntoChunks"}

\* the call returns
RunChunker ==
    /\ prog = "chunkers" /\ ckPc = "start" /\ ckFn \in Chunkers
    /\ ckChunks' = CASE ckFn = "chunkTextForTTS" -> chunkTextForTTS(ckText, ckMax)
                     [] ckFn = "chunkText" -> chunkText(ckText, ckMax)
                     [] OTHER -> splitTextIntoChunks(ckText, ckMax)
    /\ ckPc' = "done"
    /\ UNCHANGED <<ckFn, ckText, ckMax, ckOverlap>>
    /\ UNCHANGED exceptChunker

\* ===================================================================
\* chunkTextToSSML (part_016 41-63) and the manual chunking of
\* chunkTextToSSML (ssmlTools.js 108-169)
\* ===================================================================
\* text.match(/[^T]+[T]+/g) for a set T of terminators: the maximal pieces
\* made of one or more other characters followed by one or more terminators
RECURSIVE MatchSentences(_, _, _, _)
MatchSentences(t, cur, acc, T) ==
    IF t = <<>> THEN acc
    ELSE IF Head(t) \in T
    THEN IF cur = <<>>
         THEN MatchSentences(Tail(t), <<>>, acc, T)
         ELSE IF Tail(t) # <<>> /\ Head(Tail(t)) \in T
              THEN MatchSentences(Tail(t), Append(cur, Head(t)), acc, T)
              ELSE MatchSentences(Tail(t), <<>>, Append(acc, Append(cur, Head(t))), T)
    ELSE MatchSentences(Tail(t), Append(cur, Head(t)), acc, T)

\* text.match(re) || [text]
MatchOrText(text, T) ==
    LET m == MatchSentences(text, <<>>, <<>>, T)
    IN  IF m = <<>> THEN <<text>> ELSE m

\* string.slice(-n): the last n characters; slice(-0) is the whole string
SliceLast(str, n) ==
    IF n = 0 \/ n >= Len(str) THEN str ELSE SubSeq(str, Len(str) - n + 1, Len(str))

\* makeUKSSML(text): the text inside the speak and prosody elements
makeUKSSML(text) == <<"<speak>">> \o text \o <<"</speak>">>

\* the loop of part_016's chunkTextToSSML over the sentences
RECURSIVE ssmlLoop(_, _, _, _, _)
ssmlLoop(sentences, segments, currentChunk, maxLength, overlap) ==
    IF sentences = <<>>
    THEN IF currentChunk # <<>> THEN Append(segments, makeUKSSML(currentChunk))
                                ELSE segments
    ELSE LET sentence == Head(sentences)
         IN  IF Len(currentChunk) + Len(sentence) > maxLength
             THEN IF currentChunk # <<>>
                  THEN ssmlLoop(Tail(sentences), Append(segments, makeUKSSML(currentChunk)),
                                SliceLast(currentChunk, overlap) \o sentence,
                                maxLength, overlap)
                  ELSE ssmlLoop(Tail(sentences), segments, sentence, maxLength, overlap)
             ELSE ssmlLoop(Tail(sentences), segments, currentChunk \o sentence,
                           maxLength, overlap)

\* chunkTextToSSML(text, maxLength, overlap) of part_016
chunkTextToSSML(text, maxLength, overlap) ==
    IF Trim(text) = <<>> THEN <<>>
    ELSE ssmlLoop(MatchOrText(text, {".", "!", "?"}), <<>>, <<>>, maxLength, overlap)

\* the word loop of the manual chunking: [chunks, wordChunk]
RECURSIVE manualWordLoop(_, _, _, _)
manualWordLoop(words, chunks, wordChunk, maxChunkBytes) ==
    IF words = <<>> THEN [chunks |-> chunks, wordChunk |-> wordChunk]
    ELSE LET testChunk == wordChunk \o (IF wordChunk # <<>> THEN <<" ">> ELSE <<>>)
                                    \o Head(words)
         IN  IF Len(testChunk) <= maxChunkBytes
             THEN manualWordLoop(Tail(words), chunks, testChunk, maxChunkBytes)
             ELSE manualWordLoop(Tail(words),
                      IF wordChunk # <<>> THEN Append(chunks, wordChunk) ELSE chunks,
                      Head(words), maxChunkBytes)

\* the sentence loop of the manual chunking; every character is one byte
RECURSIVE manualLoop(_, _, _, _)
manualLoop(sentences, chunks, currentChunk, maxChunkBytes) ==
    IF sentences = <<>>
    THEN IF currentChunk # <<>> THEN Append(chunks, currentChunk) ELSE chunks
    ELSE LET sentence == Head(sentences)
         IN  IF Len(sentence) > maxChunkBytes
             THEN LET flushed == IF currentChunk # <<>> THEN Append(chunks, currentChunk)
                                                        ELSE chunks
                      w == manualWordLoop(SplitWords(sentence, <<>>, <<>>), flushed, <<>>,
                                          maxChunkBytes)
                  IN  manualLoop(Tail(sentences), w.chunks, w.wordChunk, maxChunkBytes)
             ELSE IF Len(currentChunk) + Len(sentence) <= maxChunkBytes
             THEN manualLoop(Tail(sentences), chunks, currentChunk \o sentence,
                             maxChunkBytes)
             ELSE manualLoop(Tail(sentences),
                      IF currentChunk # <<>> THEN Append(chunks, currentChunk) ELSE chunks,
                      sentence, maxChunkBytes)

\* the manual chunking of ssmlTools.js' chunkTextToSSML, before editAndFormat
manualChunking(text, maxChunkBytes) ==
    manualLoop(MatchOrText(text, {".", "!", "?", "\n"}), <<>>, <<>>, maxChunkBytes)

SsmlChunkers == {"chunkTextToSSML", "manualChunking"}

\* the call returns
RunSsmlChunker ==
    /\ prog = "chunkers" /\ ckPc = "start" /\ ckFn \in SsmlChunkers
    /\ ckChunks' = IF ckFn = "chunkTextToSSML"
                   THEN chunkTextToSSML(ckText, ckMax, ckOverlap)
                   ELSE manualChunking(ckText, ckMax)
    /\ ckPc' = "done"
    /\ UNCHANGED <<ckFn, ckText, ckMax, ckOverlap>>
    /\ UNCHANGED exceptChunker

\* ===================================================================
\* The merge routines: mergeChunks (utlis/mergeTTSChunks.js 17-70),
\* mergeTTSChunks with exec (part_012 18-51), mergeTTSChunks with spawn
\* (part_012 68-112), mergeMp3WithFfmpeg (routes/tts.js 480-516)
\* ===================================================================
MergeRoutines == {"mergeChunks", "mergeTTSChunksExec", "mergeTTSChunksSpawn",
                  "mergeMp3WithFfmpeg"}

NoFiles == [dir |-> FALSE, list |-> FALSE, out |-> FALSE, parts |-> {}]

\* the routine makes its temporary directory
MakesDir(fn) == fn \in {"mergeTTSChunksSpawn", "mergeMp3WithFfmpeg"}

\* what the routine removes when it leaves by `exit`: "success" (after the
\* upload), "ffmpeg" (the ffmpeg promise rejected) or "upload" (the upload
\* rejected).  mergeChunks and the spawn version unlink after the upload only;
\* the exec version unlinks in a finally; mergeMp3WithFfmpeg removes nothing
Cleanup(fn, files, exit) ==
    CASE fn = "mergeChunks" ->
             IF exit = "success" THEN [files EXCEPT !.list = FALSE, !.out = FALSE] ELSE files
      [] fn = "mergeTTSChunksExec" -> [files EXCEPT !.list = FALSE, !.out = FALSE]
      [] fn = "mergeTTSChunksSpawn" ->
             IF exit = "success"
             THEN [files EXCEPT !.list = FALSE, !.out = FALSE, !.dir = FALSE]
             ELSE files
      [] OTHER -> files

\* ffmpeg.on("error", reject) is registered (exec reports it to its callback)
HasErrorListener(fn) == fn # "mergeChunks"

\* the call with no chunk files: the three chunk-file routines throw at once
MergeNothing ==
    /\ prog = "merge" /\ mgPc = "start"
    /\ mgN = 0 /\ mgFn # "mergeMp3WithFfmpeg"
    /\ mgPc' = "thrown"
    /\ UNCHANGED <<mgFn, mgN, mgFiles, mgFfmpeg, mgPromise, mgUpload>>
    /\ UNCHANGED exceptMerge

\* mkdtemp, where the routine makes a directory
MergeMkdtemp ==
    /\ prog = "merge" /\ mgPc = "start"
    /\ MakesDir(mgFn) /\ (mgN > 0 \/ mgFn = "mergeMp3WithFfmpeg")
    /\ mgFiles' = [mgFiles EXCEPT !.dir = TRUE]
    /\ mgPc' = IF mgFn = "mergeMp3WithFfmpeg" /\ mgN > 0 THEN "parts" ELSE "list"
    /\ UNCHANGED <<mgFn, mgN, mgFfmpeg, mgPromise, mgUpload>>
    /\ UNCHANGED exceptMerge

\* mergeMp3WithFfmpeg: fs.writeFile(p, b) of buffer i resolves; the writes
\* run together
MergeWritePart(i) ==
    /\ prog = "merge" /\ mgPc = "parts"
    /\ i \in 0..(mgN - 1) /\ i \notin mgFiles.parts
    /\ mgFiles' = [mgFiles EXCEPT !.parts = @ \cup {i}]
    /\ mgPc' = IF mgFiles'.parts = 0..(mgN - 1) THEN "list" ELSE "parts"
    /\ UNCHANGED <<mgFn, mgN, mgFfmpeg, mgPromise, mgUpload>>
    /\ UNCHANGED exceptMerge

\* the list file is written and ffmpeg is started
MergeWriteList ==
    /\ prog = "merge"
    /\ \/ mgPc = "list"
       \/ mgPc = "start" /\ ~MakesDir(mgFn) /\ mgN > 0
    /\ mgFiles' = [mgFiles EXCEPT !.list = TRUE]
    /\ mgPromise' = "pending"
    /\ mgPc' = "ffmpeg"
    /\ UNCHANGED <<mgFn, mgN, mgFfmpeg, mgUpload>>
    /\ UNCHANGED exceptMerge

\* the ffmpeg promise rejected: the routine throws, after its cleanup
MergeRejected(outcome, wroteOut) ==
    /\ mgFfmpeg' = outcome
    /\ mgPromise' = "rejected"
    /\ mgFiles' = Cleanup(mgFn, [mgFiles EXCEPT !.out = wroteOut], "ffmpeg")
    /\ mgPc' = "thrown"
    /\ mgUpload' = mgUpload

\* ffmpeg closes with exit code `code`; with a non-zero code it may have
\* written a part of the output file.  After code 0 the merged file is read
\* and uploaded, or - mergeMp3WithFfmpeg - returned to the job pipeline
FfmpegClose(code, wroteOut) ==
    /\ prog = "merge" /\ mgPc = "ffmpeg"
    /\ code = 0 => wroteOut
    /\ IF code = 0
       THEN /\ mgFfmpeg' = "exit0"
            /\ mgPromise' = "resolved"
            /\ mgFiles' = [mgFiles EXCEPT !.out = TRUE]
            /\ IF mgFn = "mergeMp3WithFfmpeg"
               THEN mgPc' = "returned" /\ mgUpload' = mgUpload
               ELSE mgPc' = "upload" /\ mgUpload' = "started"
       ELSE MergeRejected("nonzero", wroteOut)
    /\ UNCHANGED <<mgFn, mgN>>
    /\ UNCHANGED exceptMerge

\* ffmpeg cannot be started.  Either spawn throws inside the promise's
\* executor (the promise rejects), or the child emits "error": with a
\* listener the promise rejects; without one the event is an uncaught
\* exception, "close" is never emitted and the promise stays pending
FfmpegSpawnFails(emitted) ==
    /\ prog = "merge" /\ mgPc = "ffmpeg"
    /\ IF emitted /\ ~HasErrorListener(mgFn)
       THEN /\ mgFfmpeg' = "spawnError"
            /\ mgPc' = "stuck"
            /\ UNCHANGED <<mgPromise, mgFiles, mgUpload>>
       ELSE MergeRejected("spawnError", FALSE)
    /\ UNCHANGED <<mgFn, mgN>>
    /\ UNCHANGED exceptMerge

\* the upload of the merged file settles
MergeUploadSettles(ok) ==
    /\ prog = "merge" /\ mgPc = "upload"
    /\ mgUpload' = IF ok THEN "ok" ELSE "failed"
    /\ mgFiles' = Cleanup(mgFn, mgFiles, IF ok THEN "success" ELSE "upload")
    /\ mgPc' = IF ok THEN "returned" ELSE "thrown"
    /\ UNCHANGED <<mgFn, mgN, mgFfmpeg, mgPromise>>
    /\ UNCHANGED exceptMerge

\* ===================================================================
\* createPodcast (utils/podcastProcessor.js 29-89)
\* ===================================================================
INTRO_DURATION == 15
OUTRO_DURATION == 16

Tracks == <<"merged", "intro", "outro">>

\* downloadAudio(url, destination) once axios has settled.  fs is the default
\* export of 'fs/promises', which has no createWriteStream: after a response
\* the call throws a TypeError; without one it rejects with axios' error
downloadAudio(answered) == IF answered THEN "TypeError" ELSE "axios error"

\* getAudioDuration(filePath): execPromise(cmd) is a promise and has no
\* stdout, so execPromise(cmd).stdout.trim() throws before ffprobe's output
\* is read
getAudioDuration(seconds) == [threw |-> TRUE, value |-> 0]

\* validateAudioFiles(introPath, outroPath): the error it throws, or "ok"
validateAudioFiles(intro, outro) ==
    LET introDuration == getAudioDuration(intro)
        outroDuration == getAudioDuration(outro)
    IN  IF introDuration.threw \/ outroDuration.threw THEN "TypeError"
        ELSE IF introDuration.value < INTRO_DURATION THEN "intro too short"
        ELSE IF outroDuration.value < OUTRO_DURATION THEN "outro too short"
        ELSE "ok"

\* processAudioWithPrecision: [a0][a1][a2]concat=n=3 of the inputs 0, 1, 2
processAudioWithPrecision(introPath, contentPath, outroPath) ==
    <<introPath, contentPath, outroPath>>

\* fs.mkdir and the three downloadAudio calls of Promise.all: each one
\* awaits axios
PodcastStart ==
    /\ prog = "podcast" /\ pdPc = "start"
    /\ pdDownload' = [i \in 1..3 |-> "axios"]
    /\ pdPc' = "downloading"
    /\ UNCHANGED <<pdIntro, pdOutro, pdProcessed, pdUploaded, pdError>>
    /\ UNCHANGED exceptPodcast

\* axios settles for track i and its downloadAudio call settles.  Promise.all
\* rejects with the first rejection: the catch rethrows it and the finally
\* removes the temporary files.  When all three have resolved the files are
\* validated, processed and uploaded
AxiosSettles(i, answered) ==
    /\ prog = "podcast" /\ pdPc \in {"downloading", "thrown"}
    /\ i \in 1..3 /\ pdDownload[i] = "axios"
    /\ LET outcome == downloadAudio(answered)
           dl == [pdDownload EXCEPT ![i] = outcome]
       IN  /\ pdDownload' = dl
           /\ IF pdPc = "thrown"
              THEN UNCHANGED <<pdPc, pdProcessed, pdUploaded, pdError>>
              ELSE IF outcome # "resolved"
              THEN /\ pdPc' = "thrown"
                   /\ pdError' = outcome
                   /\ UNCHANGED <<pdProcessed, pdUploaded>>
              ELSE IF \E j \in 1..3 : dl[j] # "resolved"
              THEN UNCHANGED <<pdPc, pdProcessed, pdUploaded, pdError>>
              ELSE LET v == validateAudioFiles(pdIntro, pdOutro)
                   IN  IF v # "ok"
                       THEN /\ pdPc' = "thrown"
                            /\ pdError' = v
                            /\ UNCHANGED <<pdProcessed, pdUploaded>>
                       ELSE /\ pdProcessed' = processAudioWithPrecision(
                                                 Tracks[2], Tracks[1], Tracks[3])
                            /\ pdUploaded' = pdProcessed'
                            /\ pdPc' = "returned"
                            /\ pdError' = pdError
    /\ UNCHANGED <<pdIntro, pdOutro>>
    /\ UNCHANGED exceptPodcast

\* ===================================================================
\* mergeAudioFiles (part_013 15-50)
\* ===================================================================
\* an item of the list: a Buffer with its bytes, or something else
Buffer(bytes) == [isBuffer |-> TRUE, bytes |-> bytes]
NotABuffer == [isBuffer |-> FALSE, bytes |-> <<>>]

\* (mutant) a copy that puts each buffer in front of what was copied before
CopyInFront(merged, buffer) == buffer.bytes \o merged

\* buffer.copy(mergedBuffer, offset); offset += buffer.length
CopyAtOffset(merged, buffer) == merged \o buffer.bytes

\* the loop over audioBuffers: what has been copied into mergedBuffer
RECURSIVE CopyLoop(_, _)
CopyLoop(list, merged) ==
    IF list = <<>> THEN merged
    ELSE LET buffer == Head(list)
         IN  CopyLoop(Tail(list),
                      IF buffer.isBuffer /\ Len(buffer.bytes) > 0
                      THEN CopyAtOffset(merged, buffer)
                      ELSE merged)

\* audioBuffers.reduce(...): the length mergedBuffer is allocated with
RECURSIVE totalLength(_)
totalLength(list) ==
    IF list = <<>> THEN 0
    ELSE (IF Head(list).isBuffer THEN Len(Head(list).bytes) ELSE 0)
         + totalLength(Tail(list))

\* Buffer.alloc(n) filled by the copies: bytes not written stay 0
Filled(n, copied) == [k \in 1..n |-> IF k <= Len(copied) THEN copied[k] ELSE 0]

\* mergeAudioFiles(audioBuffers)
mergeAudioFiles(list) ==
    IF Len(list) = 0 THEN Buffer(<<>>)
    ELSE IF Len(list) = 1 THEN list[1]
    ELSE Buffer(Filled(totalLength(list), CopyLoop(list, <<>>)))

Reversed(list) == [k \in 1..Len(list) |-> list[Len(list) + 1 - k]]

\* call c returns
MergeAudioCall(c) ==
    /\ prog = "audiomerge" /\ c \in {1, 2} /\ maPc[c] = "start"
    /\ maResult' = [maResult EXCEPT ![c] =
                       mergeAudioFiles(IF c = 1 THEN audioBuffers ELSE Reversed(audioBuffers))]
    /\ maPc' = [maPc EXCEPT ![c] = "returned"]
    /\ UNCHANGED audioBuffers
    /\ UNCHANGED exceptAudioMerge

\* ===================================================================
\* callOpenAIChunk (utils/chatgptSSMLGenerator.js 23-70)
\* ===================================================================
\* a JavaScript number that may be NaN
JsNum(n) == [nan |-> FALSE, n |-> n]
NaN == [nan |-> TRUE, n |-> 0]

\* err.response.headers["retry-after"]: absent, or a string (its characters)
NoHeader == [present |-> FALSE, chars |-> <<>>]
Header(chars) == [present |-> TRUE, chars |-> chars]

DigitValue(c) ==
    CASE c = "0" -> 0 [] c = "1" -> 1 [] c = "2" -> 2 [] c = "3" -> 3
      [] c = "4" -> 4 [] c = "5" -> 5 [] c = "6" -> 6 [] c = "7" -> 7
      [] c = "8" -> 8 [] c = "9" -> 9 [] OTHER -> -1

\* the digits a string starts with, as a number; seen: a digit was read
RECURSIVE LeadingDigits(_, _, _)
LeadingDigits(chars, acc, seen) ==
    IF chars = <<>> \/ DigitValue(Head(chars)) < 0
    THEN IF seen THEN JsNum(acc) ELSE NaN
    ELSE LeadingDigits(Tail(chars), 10 * acc + DigitValue(Head(chars)), TRUE)

RECURSIVE SkipWhiteSpace(_)
SkipWhiteSpace(chars) ==
    IF chars # <<>> /\ Head(chars) = " " THEN SkipWhiteSpace(Tail(chars)) ELSE chars

\* parseInt(string, 10)
parseInt(chars) ==
    LET s == SkipWhiteSpace(chars)
    IN  IF s # <<>> /\ Head(s) = "-"
        THEN LET m == LeadingDigits(Tail(s), 0, FALSE)
             IN  IF m.nan THEN NaN ELSE JsNum(0 - m.n)
        ELSE IF s # <<>> /\ Head(s) = "+" THEN LeadingDigits(Tail(s), 0, FALSE)
        ELSE LeadingDigits(s, 0, FALSE)

\* parseInt(err.response.headers["retry-after"] || "2", 10)
retryAfter(header) ==
    parseInt(IF header.present /\ header.chars # <<>> THEN header.chars ELSE <<"2">>)

\* Math.pow(2, attempt) * 1000 + retryAfter * 1000
backoff(a, header) ==
    LET r == retryAfter(header)
    IN  IF r.nan THEN NaN ELSE JsNum(Pow2(a) * 1000 + r.n * 1000)

\* the error axios.post rejects with: a response with a status and headers,
\* or no response (timeout of 30000 ms, network error)
HttpError(status, header) == [response |-> TRUE, status |-> status, header |-> header]
NoAxiosResponse == [response |-> FALSE, status |-> 0, header |-> NoHeader]

\* an entry of oaLog: an axios.post call that resolved
PostResolved == [ok |-> TRUE, err |-> NoAxiosResponse, retried |-> FALSE, backoff |-> JsNum(0)]
\* an entry of oaLog: an axios.post call that rejected
PostRejected(err, retried, wait) == [ok |-> FALSE, err |-> err, retried |-> retried, backoff |-> wait]

\* callOpenAIChunk(text): const cached = _cache.get(text); if (cached) return cached
OpenAICall(text) ==
    /\ prog = "openai" /\ oaPc = "idle"
    /\ oaText' = text
    /\ oaLog' = <<>>
    /\ oaAttempt' = 0
    /\ IF Truthy(oaCache[text])
       THEN oaPc' = "returned" /\ oaReturn' = oaCache[text]
       ELSE oaPc' = "post" /\ oaReturn' = Undefined
    /\ UNCHANGED oaCache
    /\ UNCHANGED exceptOpenAI

\* axios.post resolves: resp?.data?.choices?.[0]?.message?.content || ""
AxiosPostResolves(content) ==
    /\ prog = "openai" /\ oaPc = "post" /\ oaAttempt < 5
    /\ oaLog' = Append(oaLog, PostResolved)
    /\ oaCache' = [oaCache EXCEPT ![oaText] = Str(content)]
    /\ oaReturn' = Str(content)
    /\ oaPc' = "returned"
    /\ UNCHANGED <<oaText, oaAttempt>>
    /\ UNCHANGED exceptOpenAI

\* axios.post rejects: the catch block
AxiosPostRejects(err) ==
    /\ prog = "openai" /\ oaPc = "post" /\ oaAttempt < 5
    /\ IF err.response /\ err.status = 429 /\ oaAttempt < 4
       THEN /\ oaLog' = Append(oaLog, PostRejected(err, TRUE, backoff(oaAttempt, err.header)))
            /\ oaPc' = "timer"
            /\ UNCHANGED oaReturn
       ELSE /\ oaLog' = Append(oaLog, PostRejected(err, FALSE, JsNum(0)))
            /\ oaPc' = "returned"
            /\ oaReturn' = Str(oaText)
    /\ UNCHANGED <<oaCache, oaText, oaAttempt>>
    /\ UNCHANGED exceptOpenAI

\* the timer of the backoff fires: attempt++; continue
BackoffTimerFires ==
    /\ prog = "openai" /\ oaPc = "timer"
    /\ oaAttempt' = oaAttempt + 1
    /\ oaPc' = "post"
    /\ UNCHANGED <<oaCache, oaText, oaLog, oaReturn>>
    /\ UNCHANGED exceptOpenAI

\* the caller has the value; the next call of the process can start
OpenAICallDone ==
    /\ prog = "openai" /\ oaPc = "returned"
    /\ oaPc' = "idle"
    /\ UNCHANGED <<oaCache, oaText, oaAttempt, oaLog, oaReturn>>
    /\ UNCHANGED exceptOpenAI

\* ===================================================================
\* Two concurrent calls of mergeChunks (utlis/mergeTTSChunks.js 17-70) or
\* of mergeTTSChunks (part_012 18-51, 68-112) for the same sessionId
\* ===================================================================
Calls == {1, 2}

\* the list file of call c: inputs-${sessionId}.txt and
\* ${sessionId}_filelist.txt are named by the session alone; the third
\* routine writes inputs.txt in the directory fs.mkdtemp made for the call
ListPath(fn, c) ==
    IF fn = "mergeTTSChunksSpawn" THEN <<"list", c>> ELSE <<"list", 0>>

\* the output file of call c: merged-${sessionId}.mp3,
\* ${sessionId}_merged_${Date.now()}.mp3, or merged.mp3 in the call's directory
OutPath(fn, c, sameMs) ==
    CASE fn = "mergeChunks" -> <<"merged", 0>>
      [] fn = "mergeTTSChunksExec" -> IF sameMs THEN <<"merged", 0>> ELSE <<"merged", c>>
      [] OTHER -> <<"merged", c>>

Paths == {"list", "merged"} \X {0, 1, 2}

\* fs.unlink of the list file and of the output file
Unlinked(files, fn, c, sameMs) ==
    [p \in Paths |-> IF p \in {ListPath(fn, c), OutPath(fn, c, sameMs)} THEN <<>> ELSE files[p]]

\* the routine removes its files when it fails: only the finally of the exec
\* version does
CleansOnFailure(fn) == fn = "mergeTTSChunksExec"

\* after the failure of call c: cleanup where the routine has it, then throw
Merge2Failed(c) ==
    /\ m2Pc' = [m2Pc EXCEPT ![c] = "thrown"]
    /\ m2Fs' = IF CleansOnFailure(m2Fn) THEN Unlinked(m2Fs, m2Fn, c, m2SameMs) ELSE m2Fs

\* call c writes its list file and starts ffmpeg
Merge2Start(c) ==
    /\ prog = "merge2" /\ m2Pc[c] = "start"
    /\ m2Fs' = [m2Fs EXCEPT ![ListPath(m2Fn, c)] = <<m2List[c]>>]
    /\ m2Pc' = [m2Pc EXCEPT ![c] = "ffmpeg"]
    /\ UNCHANGED <<m2Fn, m2List, m2SameMs, m2Wrote, m2Upload>>
    /\ UNCHANGED exceptMerge2

\* the ffmpeg process of call c runs: it concatenates the files of the list
\* file as it finds it into the output file and exits with 0, or fails (no
\* list file, a chunk it cannot read)
Ffmpeg2Exits(c, ok) ==
    /\ prog = "merge2" /\ m2Pc[c] = "ffmpeg"
    /\ IF ok /\ m2Fs[ListPath(m2Fn, c)] # <<>>
       THEN /\ m2Fs' = [m2Fs EXCEPT ![OutPath(m2Fn, c, m2SameMs)] = m2Fs[ListPath(m2Fn, c)]]
            /\ m2Wrote' = [m2Wrote EXCEPT ![c] = m2Fs[ListPath(m2Fn, c)]]
            /\ m2Pc' = [m2Pc EXCEPT ![c] = "closed"]
       ELSE /\ Merge2Failed(c)
            /\ UNCHANGED m2Wrote
    /\ UNCHANGED <<m2Fn, m2List, m2SameMs, m2Upload>>
    /\ UNCHANGED exceptMerge2

\* call c goes on after ffmpeg: it reads the output file and hands it to the
\* upload; the read throws when the file is gone
Merge2ReadsOutput(c) ==
    /\ prog = "merge2" /\ m2Pc[c] = "closed"
    /\ IF m2Fs[OutPath(m2Fn, c, m2SameMs)] # <<>>
       THEN /\ m2Upload' = [m2Upload EXCEPT ![c] = m2Fs[OutPath(m2Fn, c, m2SameMs)]]
            /\ m2Pc' = [m2Pc EXCEPT ![c] = "upload"]
            /\ UNCHANGED m2Fs
       ELSE /\ Merge2Failed(c)
            /\ UNCHANGED m2Upload
    /\ UNCHANGED <<m2Fn, m2List, m2SameMs, m2Wrote>>
    /\ UNCHANGED exceptMerge2

\* the upload of call c settles: the files are removed and the URL is
\* returned, or the routine fails
Merge2UploadSettles(c, ok) ==
    /\ prog = "merge2" /\ m2Pc[c] = "upload"
    /\ IF ok
       THEN /\ m2Fs' = Unlinked(m2Fs, m2Fn, c, m2SameMs)
            /\ m2Pc' = [m2Pc EXCEPT ![c] = "returned"]
       ELSE Merge2Failed(c)
    /\ UNCHANGED <<m2Fn, m2List, m2SameMs, m2Wrote, m2Upload>>
    /\ UNCHANGED exceptMerge2

\* ===================================================================
\* Properties
\* ===================================================================
\* the chunk tasks that hold a permit: granted, not yet released
InFlight == {i \in Indices : task[i].st \in {"synth", "upload"}}
Queued == {i \in Indices : task[i].st = "queued"}
Fulfilled == {i \in Indices : task[i].st = "fulfilled"}
Rejected == {i \in Indices : task[i].st = "rejected"}

\* the URLs whose task runs in the ConcurrencyPool
PoolRunning == {u \in Urls : urlState[u] \in {"synth", "upload"}}
PoolQueued == {u \in Urls : urlState[u] = "queued"}

RECURSIVE SumBytes(_)
SumBytes(S) ==
    IF S = {} THEN 0
    ELSE LET i == CHOOSE x \in S : TRUE IN task[i].bytes + SumBytes(S \ {i})

\* C1: with a concurrency limit C >= 1, never more than C chunk tasks hold a
\* permit of the request's Semaphore; never more than max tasks of a
\* ConcurrencyPool run.
C1_AtMostCInFlight ==
    /\ concurrency >= 1 => Cardinality(InFlight) <= concurrency
    /\ Cardinality(PoolRunning) <= pool.max

\* C1 witness: the limit is reached with a task waiting, after a release
C1_Witness ==
    /\ concurrency >= 1
    /\ Cardinality(InFlight) = concurrency
    /\ Queued # {}
    /\ Fulfilled # {}

\* C3: a release with a task queued admits the head of the queue in the same
\* step, and a task waits in the queue only while exactly max permits are held
\* (max >= 1).
C3_QueuedOnlyWhenFull ==
    /\ (concurrency >= 1 /\ Queued # {}) => Cardinality(InFlight) = concurrency
    /\ PoolQueued # {} => Cardinality(PoolRunning) = pool.max

C3_SemReleaseAdmitsHead ==
    (/\ pc = "processing"
     /\ sem.queue # <<>>
     /\ \E i \in InFlight : Settled(task'[i]))
    => task'[Head(sem.queue)].st = "synth"

C3_PoolReleaseAdmitsHead ==
    (/\ poolPc = "running"
     /\ pool.queue # <<>>
     /\ \E u \in PoolRunning :
           \/ urlState'[u] \notin {"synth", "upload"}
           \/ chunkIndex'[u] # chunkIndex[u])
    => urlState'[Head(pool.queue)] = "synth"

C3_ImmediateRefill ==
    /\ []C3_QueuedOnlyWhenFull
    /\ [][C3_SemReleaseAdmitsHead /\ C3_PoolReleaseAdmitsHead]_vars

\* C3 witness: a task admitted from the queue by a release runs while another
\* still waits
C3_Witness ==
    /\ \E i \in InFlight : task[i].via = "queue"
    /\ Queued # {}

\* C5: the handler responds only once every chunk task has settled; a
\* rejection changes no other task except to admit the head of the queue,
\* and a task never waits behind a rejection without a running task to
\* release it.
C5_RespondedOnlyWhenSettled ==
    (pc = "responded" /\ task # <<>>) => \A i \in Indices : Settled(task[i])

C5_NoTaskStuckBehindRejection ==
    (Rejected # {} /\ Queued # {}) => InFlight # {}

C5_RejectionLeavesSiblings ==
    \A i \in InFlight :
        task'[i].st = "rejected" =>
            \A j \in Indices \ {i} :
                \/ task'[j] = task[j]
                \/ task[j].st = "queued" /\ task'[j].st = "synth"

C5_FailureIsolated ==
    /\ [](C5_RespondedOnlyWhenSettled /\ C5_NoTaskStuckBehindRejection)
    /\ [][pc = "processing" => C5_RejectionLeavesSiblings]_vars

\* C5 witness: with one permit, chunk 0 was rejected and chunk 1, started
\* after it, was fulfilled before the response
C5_Witness ==
    /\ pc = "responded"
    /\ concurrency = 1
    /\ Len(textChunks) >= 2
    /\ task[0].st = "rejected"
    /\ task[1].st = "fulfilled"

\* C7: the chunks of a success response are strictly ascending by index.
C7_ChunksAscending ==
    (pc = "responded" /\ response.status = 200) =>
        \A k \in 1..(Len(response.chunks) - 1) :
            response.chunks[k].index < response.chunks[k + 1].index

C7_Witness ==
    /\ pc = "responded" /\ response.status = 200
    /\ Len(response.chunks) >= 2
    /\ Rejected # {}

\* C8: a success response holds exactly the M fulfilled entries (count = M),
\* warnings.failedChunks is exactly the K rejected indices and is absent when
\* K = 0, the two index sets are disjoint and cover 0..N-1, and
\* summaryBytesApprox is the sum of bytesApprox over the M entries.
C8_ResponseAccounts ==
    (pc = "responded" /\ response.status = 200) =>
        LET cs == response.chunks
            failed == IF "warnings" \in DOMAIN response
                      THEN response.warnings.failedChunks ELSE <<>>
            okSet == {cs[k].index : k \in 1..Len(cs)}
        IN  /\ Len(cs) = Cardinality(Fulfilled)
            /\ response.count = Cardinality(Fulfilled)
            /\ okSet = Fulfilled
            /\ \A k \in 1..Len(cs) : cs[k].bytesApprox = task[cs[k].index].bytes
            /\ Len(failed) = Cardinality(Rejected)
            /\ Range(failed) = Rejected
            /\ ("warnings" \in DOMAIN response) <=> (Rejected # {})
            /\ okSet \cap Range(failed) = {}
            /\ okSet \cup Range(failed) = 0..(Len(textChunks) - 1)
            /\ response.summaryBytesApprox = SumBytes(Fulfilled)

\* C8 witness: two entries of different sizes and one failed chunk
C8_Witness ==
    /\ pc = "responded" /\ response.status = 200
    /\ response.count = 2
    /\ response.summaryBytesApprox = 3
    /\ "warnings" \in DOMAIN response

\* C9: when every chunk task rejects the answer is 500 with failedChunks
\* listing all N indices, and no 200 answer has an empty chunks list.
C9_AllFailedIs500 ==
    /\ (pc = "responded" /\ task # <<>> /\ Fulfilled = {}) =>
          /\ response.status = 500
          /\ response.failedChunks = [k \in 1..Len(textChunks) |-> k - 1]
    /\ (pc = "responded" /\ response.status = 200) => Len(response.chunks) > 0

C9_Witness ==
    /\ pc = "responded" /\ response.status = 500
    /\ Len(textChunks) >= 2
    /\ Rejected = Indices

\* the chunks of all requests between a resolved acquire() and their release()
Holding022 ==
    {id \in Requests \X Urls \X ChunkIdx :
        rqTask[id[1]][id[2]][id[3]] \in {"synth", "upload"}}

\* C2: with the module-level Semaphore(MAX_CONCURRENCY) shared by all calls,
\* never more than MAX_CONCURRENCY chunks are between a resolved acquire() and
\* their release().
C2_AtMostMaxHolding == Cardinality(Holding022) <= MAX_CONCURRENCY

\* the call of request r is over, and it had chunks of which none was uploaded
AllChunksFailed(r) ==
    /\ rqPc[r] \in {"returned", "rejected"}
    /\ TotalChunks(rqChunks[r], 1) > 0
    /\ rqChunkUrls[r] = <<>>

\* C10: when every chunk of every URL fails, processURLsToMergedTTS rejects;
\* it does not return a result without merged audio.
C10_AllFailedRejects ==
    \A r \in Requests : AllChunksFailed(r) => rqPc[r] = "rejected"

\* the chunks whose processChunk call is running, and those not yet finished
BatchInFlight == {k \in DOMAIN bTask : bTask[k] \in {"synth", "upload"}}
BatchUnfinished == {k \in DOMAIN bTask : bTask[k] \in {"none", "synth", "upload"}}

\* C4: in the handler that slices the chunks into groups of `concurrency`,
\* a finished chunk is replaced at once by the next unstarted one, so that
\* `concurrency` calls are in flight whenever that many chunks are unfinished.
C4_BatchKeepsConcurrencyInFlight ==
    bPc = "loop" =>
        Cardinality(BatchInFlight) >= Min(bConcurrency, Cardinality(BatchUnfinished))

\* the synthesis tasks of a job that run or wait in the limiter
JobPending(sid) ==
    {k \in DOMAIN jobTask[sid] : jobTask[sid][k] \in {"synth", "queued"}}

\* C6: a job's status is done or error only when every synthesis task of the
\* job has reached a terminal state: none is in flight or queued in the
\* limiter.
C6_TerminalOnlyWhenAllSettled ==
    \A sid \in Sessions :
        jobs[sid].status \in {"done", "error"} => JobPending(sid) = {}

\* every SSML chunk processURLsToMergedTTS (part_020) produced for the call
PoolProduced ==
    {c \in [url : Urls, index : ChunkIdx] : c.index < ssmlChunks[c.url]}

\* the chunks a returned object names as failed
ReportedFailed(res) ==
    IF "failedChunks" \in DOMAIN res THEN Range(res.failedChunks) ELSE {}

\* C11: every SSML chunk produced for a call is in the returned chunks list
\* or is reported to the caller as failed by its index.
C11_EveryChunkAccounted ==
    poolResult.returned =>
        \A c \in PoolProduced :
            c \in Range(poolResult.chunks) \/ c \in ReportedFailed(poolResult)

\* C12: each slot buffers[k] of synthesizeAllChunks is written at most once
\* and only by the task of chunk k, and when the merge starts every slot
\* holds the audio of its own chunk text, whatever the completion order; the
\* same holds for chunkResults[index] of processChunksWithConcurrency.
C12_SingleWriterSlots ==
    /\ \A sid \in Sessions : \A k \in DOMAIN buffers[sid] :
          /\ buffers[sid][k] \in {<<>>, <<k>>}
          /\ buffers[sid][k] = <<k>> <=> jobTask[sid][k] = "ok"
    /\ \A sid \in Sessions :
          jobPc[sid] = "merging" =>
              /\ DOMAIN buffers[sid] = 0..(jobChunks[sid] - 1)
              /\ \A k \in DOMAIN buffers[sid] : buffers[sid][k] = <<k>>
    /\ \A r \in Requests, u \in Urls, k \in ChunkIdx :
          /\ chunkResults[r][u][k] \in {<<>>, <<Null>>, <<[url |-> u, index |-> k]>>}
          /\ chunkResults[r][u][k] = <<[url |-> u, index |-> k]>> <=> rqTask[r][u][k] = "ok"
          /\ chunkResults[r][u][k] = <<Null>> <=> rqTask[r][u][k] = "failed"

\* a later chunk's task has written its slot while an earlier one still runs
C12_Witness ==
    \E sid \in Sessions :
        /\ jobPc[sid] = "synth" /\ jobChunks[sid] >= 2
        /\ buffers[sid][1] = <<1>> /\ buffers[sid][0] = <<>>

\* chunk a comes before chunk b in the input: by URL, then by chunk index
InputBefore(a, b) == a.url < b.url \/ (a.url = b.url /\ a.index < b.index)

InInputOrder(list) ==
    \A i, j \in 1..Len(list) : i < j => InputBefore(list[i], list[j])

\* C13: the chunk list processURLsToMergedTTS hands to the merge step and
\* returns is in input order (by URL position, then by chunk index),
\* whatever the completion order of the URLs' calls.
C13_ChunksInInputOrder ==
    \A r \in Requests :
        /\ rqPc[r] = "merging" => InInputOrder(rqChunkUrls[r])
        /\ rqPc[r] = "returned" => InInputOrder(rqReturn[r].chunks)

\* the status changes a job may make from one state to the next; a job is
\* made queued and set running within the one POST handler
StatusSteps ==
    {<<"absent", StartRun(QueuedJob).status>>, <<"running", "done">>, <<"running", "error">>}

\* C14: a job's status only follows queued -> running -> done or
\* queued -> running -> error, and done and error are absorbing, whatever
\* POSTs and late task completions follow.
C14_StatusLifecycle ==
    /\ QueuedJob.status = "queued"
    /\ [][\A sid \in Sessions :
             jobs'[sid].status # jobs[sid].status =>
                 <<jobs[sid].status, jobs'[sid].status>> \in StatusSteps]_vars

\* a task that was started after the job went to error has completed
C14_Witness ==
    \E sid \in Sessions :
        /\ TTS_CONCURRENCY = 1 /\ jobs[sid].status = "error"
        /\ jobChunks[sid] >= 2
        /\ jobTask[sid][0] = "failed" /\ jobTask[sid][1] = "ok"

\* the synthesis tasks of a job that have completed
JobCompleted(sid) == {k \in DOMAIN jobTask[sid] : jobTask[sid][k] = "ok"}

\* round(100 * c / n), halves up
RoundPercent(c, n) == (200 * c + n) \div (2 * n)

\* C15: while a job is running, after each completed segment job.progress is
\* round(100 * completed / total); it is 100 only when all have finished.
C15_ProgressIsCompletedShare ==
    \A sid \in Sessions :
        (jobs[sid].status = "running" /\ JobCompleted(sid) # {}) =>
            /\ jobs[sid].progress =
                   RoundPercent(Cardinality(JobCompleted(sid)), jobChunks[sid])
            /\ jobs[sid].progress = 100 => JobPending(sid) = {}

\* C16: for each sessionId at most one run of synthesizeAllChunks is ever
\* started: a POST for a sessionId already in the job store, in any status,
\* starts nothing and still answers 202 with the same statusUrl and resultUrl.
C16_OneRunPerSession ==
    /\ [](\A sid \in Sessions : jobRuns[sid] <= 1)
    /\ [][\A sid \in Sessions :
             (jobs[sid] # NoJob /\ PostJob(sid)) =>
                 /\ UNCHANGED <<jobs, jobPc, jobRuns, jobChunks, jobTask, limit, buffers, bucket>>
                 /\ jobRes' = [status |-> 202,
                               statusUrl |-> <<"/api/tts", sid, "status">>,
                               resultUrl |-> <<"/api/tts", sid, "audio">>]]_vars

\* a POST has arrived for a job that had ended in error, and was answered
C16_Witness ==
    \E sid \in Sessions :
        /\ postFound = [session |-> sid, status |-> "error"]
        /\ jobs[sid].status = "error" /\ jobRuns[sid] = 1
        /\ jobRes.status = 202

\* C17: GET /:sessionId/audio answers 404 whenever the job is unknown or not
\* done, and whenever a job is done its resultKey is {sessionId}/final.mp3
\* and the upload of that object has completed.
C17_AudioOnlyWhenDone ==
    /\ \A sid \in Sessions, s3ok \in BOOLEAN :
          (jobs[sid] = NoJob \/ jobs[sid].status # "done") =>
              AudioResponse(sid, s3ok).status = 404
    /\ \A sid \in Sessions :
          jobs[sid].status = "done" =>
              /\ jobs[sid].resultKey = FinalKey(sid)
              /\ FinalKey(sid) \in bucket
    /\ (jobRes.status = 200 /\ "audio" \in DOMAIN jobRes) =>
          /\ jobRes.audio \in bucket
          /\ \E sid \in Sessions : jobs[sid].status = "done" /\ jobRes.audio = FinalKey(sid)

\* the audio was asked for while the upload of the merged file was in flight
C17_Witness ==
    \E sid \in Sessions :
        /\ jobPc[sid] = "uploading"
        /\ jobRes = [status |-> 404, error |-> "audio not ready"]

\* C18: when the whole-request timeout has fired, the queued and in-flight
\* operations of the request are cancelled: no synthesis or upload call of
\* the request is started after the timeout response was sent.
C18_NothingStartsAfterTimeout ==
    [][timedOut =>
          \A i \in DOMAIN task :
              /\ task'[i].st = "synth" => task[i].st = "synth"
              /\ task'[i].st = "upload" => task[i].st = "upload"]_vars

\* the outcomes an attempt fails with
FailedKinds == {"transient", "permanent", "timeout"}

\* min(1000 * 2^a, 10000) for a = 1, 2, ...
ExpectedWaits == <<2000, 4000, 8000, 10000, 10000, 10000, 10000, 10000>>

\* C19: uploadToR2 makes its attempts one after another, stops at the first
\* success and never makes more than maxRetries attempts; after two failed
\* attempts and a successful third it returns the public URL after exactly 3
\* attempts, having waited 2000 ms and then 4000 ms; it never waits after a
\* final failed attempt.
C19_RetryWithBackoff ==
    /\ attempt <= maxRetries /\ Len(upLog) = attempt
    /\ \A k \in 1..Len(upLog) :
          /\ upLog[k].attempt = k
          /\ k < Len(upLog) => upLog[k].outcome \in FailedKinds
          /\ upLog[k].outcome = "started" <=> (k = attempt /\ upPc = "racing")
    /\ Len(upWaits) = IF upPc = "backoff" THEN attempt
                      ELSE IF attempt = 0 THEN 0 ELSE attempt - 1
    /\ Len(upWaits) < maxRetries \/ maxRetries = 0
    /\ \A a \in 1..Len(upWaits) : upWaits[a] = ExpectedWaits[a]
    /\ upPc = "returned" /\ maxRetries >= 1 =>
          /\ upLog[attempt].outcome = "ok"
          /\ upResult.url = "publicUrl"
    /\ (Len(upLog) = 3 /\ upLog[3].outcome = "ok") =>
          /\ upPc = "returned" /\ upResult.returned
          /\ upWaits = <<2000, 4000>>

\* two failed attempts, then a successful third
C19_Witness ==
    /\ upPc = "returned" /\ Len(upLog) = 3
    /\ upLog[1].outcome = "transient" /\ upLog[2].outcome = "timeout"
    /\ upLog[3].outcome = "ok"

\* C20: when all maxRetries attempts fail, uploadToR2 throws one error whose
\* originalError is the last attempt's error, whose message contains that
\* error's message and whose attempts field is maxRetries.
C20_FinalErrorWrapsLast ==
    /\ (maxRetries >= 1 /\ Len(upLog) = maxRetries
          /\ upLog[maxRetries].outcome \in FailedKinds) =>
          upPc = "thrown" /\ upResult.thrown
    /\ upPc = "thrown" =>
          LET err == upResult.error
              last == upLog[maxRetries].outcome
          IN  /\ Len(upLog) = maxRetries
              /\ \A k \in 1..maxRetries : upLog[k].outcome \in FailedKinds
              /\ err.attempts = maxRetries
              /\ err.originalError =
                     [attempt |-> maxRetries, kind |-> last, message |-> <<last, maxRetries>>]
              /\ err.message[Len(err.message)] = <<last, maxRetries>>

\* three attempts failed, the last one differently from the others
C20_Witness ==
    /\ upPc = "thrown" /\ maxRetries = 3
    /\ upLog[1].outcome = "transient" /\ upLog[2].outcome = "transient"
    /\ upLog[3].outcome = "timeout"

\* C21: uploadToR2 does not retry a permanent failure (authentication or
\* permission error, malformed key): after such a failure it makes no further
\* attempt and fails at once.
C21_NoRetryOfPermanent ==
    \A k \in 1..Len(upLog) :
        upLog[k].outcome = "permanent" =>
            /\ Len(upLog) = k
            /\ upPc = "thrown"
            /\ Len(upWaits) = k - 1

\* the entries of a result list that carry index i
WithIndex(list, i) == {k \in 1..Len(list) : list[k].index = i}

\* C22: uploadMultipleToR2 never rejects because an individual upload failed:
\* every upload i appears in exactly one of successful or failed, carrying
\* index i; the failure of one upload neither keeps the others from being
\* attempted nor removes a successful upload from successful.
C22_EveryUploadReported ==
    /\ [](muPc \in {"running", "returned"} =>
            \A i \in 1..muN :
               /\ muTask[i].attempt >= 1
               /\ MuSettled(i) => muTask[i].result.index = i - 1
               /\ (~MuSettled(i) /\ \E j \in 1..muN : MuSettled(j) /\ ~muTask[j].result.success)
                     => ENABLED MultiAttemptOk(i))
    /\ []((muPc = "running" /\ \A i \in 1..muN : MuSettled(i)) => ENABLED MultiReturn)
    /\ [](muPc = "returned" =>
            /\ muReturn.returned
            /\ Len(muReturn.successful) + Len(muReturn.failed) = muN
            /\ \A i \in 1..muN :
                 LET inS == WithIndex(muReturn.successful, i - 1)
                     inF == WithIndex(muReturn.failed, i - 1)
                 IN  /\ Cardinality(inS) + Cardinality(inF) = 1
                     /\ inS # {} <=> muTask[i].result.success
                     /\ \A k \in inS : muReturn.successful[k].success
                     /\ \A k \in inF : ~muReturn.failed[k].success)
    /\ [][\A i \in 1..muN :
            (muPc \in {"running", "returned"} /\ MuSettled(i) /\ muTask[i].result.success)
               => muTask'[i].result = muTask[i].result]_vars

\* three uploads, the middle one failed after its retries, the others stored
C22_Witness ==
    /\ muPc = "returned" /\ muN = 3
    /\ muTask[2].attempt = DefaultMaxRetries
    /\ muReturn.successful = <<MapperResult(0, TRUE), MapperResult(2, TRUE)>>
    /\ muReturn.failed = <<MapperResult(1, FALSE)>>

\* C23: when validateAudioConfig reports the request's audioConfig invalid,
\* POST /chunked answers 400 and no text-chunk fetch, no semaphore acquire and
\* no synthesis call is ever made for that request.
C23_InvalidConfigFailsFast ==
    (pc # "validate" /\ ~audioValidation.valid /\ ~audioValidation.threw) =>
        /\ pc = "responded" /\ response.status = 400
        /\ fetchI = 1 /\ textChunks = <<>>
        /\ sem = NewSemaphore(0)
        /\ task = <<>>

\* a speaking rate above 4.0 was refused
C23_Witness ==
    /\ pc = "responded" /\ response.status = 400
    /\ audioConfig.speakingRate = Num(401)
    /\ audioValidation.errors = <<"speakingRate">>

\* C24: every chunk the sentence-accumulating chunkers return for a limit
\* maxLength has length <= maxLength, the '. ' joiners and the final '.'
\* counted, except a chunk that is one single word.
C24_ChunksWithinLimit ==
    ckPc = "done" =>
        \A k \in 1..Len(ckChunks) :
            \/ Len(ckChunks[k]) <= ckMax
            \/ \A j \in 1..Len(ckChunks[k]) : ckChunks[k][j] # " "

\* the text of a chunk: what makeUKSSML wrapped, or the chunk itself
ChunkContent(chunk) ==
    IF chunk # <<>> /\ Head(chunk) = "<speak>"
    THEN SubSeq(chunk, 2, Len(chunk) - 1)
    ELSE chunk

RECURSIVE ConcatContents(_)
ConcatContents(chunks) ==
    IF chunks = <<>> THEN <<>>
    ELSE ChunkContent(Head(chunks)) \o ConcatContents(Tail(chunks))

\* C25: for every non-empty input the chunks of chunkTextToSSML contain every
\* sentence of the input exactly once and in input order: put one after the
\* other, the chunks' texts are the input, a trailing fragment without
\* terminal punctuation included.
C25_ChunksPartitionText ==
    (ckPc = "done" /\ ckFn \in SsmlChunkers /\ Trim(ckText) # <<>>) =>
        ConcatContents(ckChunks) = ckText

\* C26: every merge routine removes the temporary list file and the merged
\* output file it created on every exit path: after it returned or threw, on
\* success, on ffmpeg failure and on upload failure, neither file remains.
C26_TempFilesRemoved ==
    mgPc \in {"returned", "thrown"} => ~mgFiles.list /\ ~mgFiles.out

\* C27: for every outcome of the ffmpeg process (exit code 0, non-zero exit
\* code, failure to spawn) the merge promise settles; it rejects on every
\* outcome other than exit code 0, and the merged file is uploaded only after
\* exit code 0.
C27_FfmpegOutcomeSettles ==
    /\ mgFfmpeg # "none" =>
          mgPromise = IF mgFfmpeg = "exit0" THEN "resolved" ELSE "rejected"
    /\ mgUpload # "none" => mgFfmpeg = "exit0"

\* C28: createPodcast rejects, without running the fade and concatenation
\* step and without uploading anything, when the intro is shorter than 15 s
\* or the outro is shorter than 16 s; otherwise (every download answered) the
\* program it uploads is the concatenation of intro, content and outro in
\* that order.
C28_FloorsThenFixedOrder ==
    (pdPc \in {"returned", "thrown"}
       /\ \A i \in 1..3 : pdDownload[i] \notin {"axios", "axios error"}) =>
        IF pdIntro < 15 \/ pdOutro < 16
        THEN pdPc = "thrown" /\ pdProcessed = <<>> /\ pdUploaded = <<>>
        ELSE pdPc = "returned" /\ pdUploaded = <<"intro", "merged", "outro">>

C30_IndexNamesSourceFile ==
    (prog = "routes" /\ pc = "responded" /\ response.status = 200) =>
        \A k \in 1..Len(response.chunks) :
            response.chunks[k].sourceUrl = response.chunks[k].index + 1

\* C31: callOpenAIChunk never throws: it makes at most 5 HTTP attempts, a
\* further attempt follows only a 429 response, the wait before it is
\* 2^attempt * 1000 ms plus the seconds of the Retry-After header (so never
\* less than 2^attempt * 1000 ms), and a call whose last attempt failed
\* returns the input text unchanged.
C31_RetriesOnlyOn429 ==
    prog = "openai" =>
        /\ oaPc \in {"idle", "post", "timer", "returned"}
        /\ Len(oaLog) <= 5
        /\ \A k \in 1..Len(oaLog) :
            /\ k < Len(oaLog) =>
                ~oaLog[k].ok /\ oaLog[k].err.response /\ oaLog[k].err.status = 429
            /\ oaLog[k].retried =>
                /\ ~oaLog[k].backoff.nan
                /\ oaLog[k].backoff.n >= Pow2(k - 1) * 1000
                /\ \A sec \in 0..9 :
                    oaLog[k].err.header = Header(<<ToString(sec)>>) =>
                        oaLog[k].backoff.n = Pow2(k - 1) * 1000 + sec * 1000
        /\ (oaPc = "returned" /\ oaLog # <<>> /\ ~oaLog[Len(oaLog)].ok) =>
                oaReturn = Str(oaText)

\* C32: when every synthesis and upload call eventually settles, the handler
\* of POST /chunked eventually sends its response, whatever the request's
\* concurrency field is (0 and negative numbers included).
C32_EventuallyResponds == <>(pc = "responded")

\* C33: every granted permit is released exactly once, whether its chunk task
\* fulfils or rejects: the Semaphore's current counts the tasks that hold a
\* permit and its queue holds the tasks that wait, so once every chunk task
\* of the request has settled current = 0 and the queue is empty; for the
\* ConcurrencyPool the same holds of active and its queue.
C33_PermitsReleasedOnce ==
    /\ (prog \in {"routes", "part002"} /\ task # <<>>) =>
        /\ sem.current = Cardinality(InFlight)
        /\ {sem.queue[k] : k \in 1..Len(sem.queue)} = Queued
        /\ Len(sem.queue) = Cardinality(Queued)
        /\ (\A i \in Indices : Settled(task[i])) => sem.current = 0 /\ sem.queue = <<>>
    /\ (prog = "part020" /\ poolPc \in {"running", "returned"}) =>
        /\ pool.active = Cardinality(PoolRunning)
        /\ {pool.queue[k] : k \in 1..Len(pool.queue)} = PoolQueued
        /\ poolPc = "returned" => pool.active = 0 /\ pool.queue = <<>>

\* C33 witness: more chunk tasks than permits, all of them settled, some
\* fulfilled and some rejected
C33_Witness ==
    /\ prog = "routes"
    /\ concurrency >= 1
    /\ Cardinality(Indices) > concurrency
    /\ \A i \in Indices : Settled(task[i])
    /\ Fulfilled # {}
    /\ Rejected # {}

\* C34: during the life of a job job.progress lies within 0..100 and never
\* decreases, in whatever order the job's chunk tasks complete.
C34_ProgressMonotone ==
    /\ [](\A sid \in Sessions : jobs[sid].progress \in 0..100)
    /\ [][\A sid \in Sessions :
             (jobs[sid] # NoJob /\ jobs'[sid] # NoJob) =>
                 jobs'[sid].progress >= jobs[sid].progress]_vars

\* C35: within one uploadToR2 call at most one PutObject request is
\* outstanding: an attempt is started only when the request of the previous
\* attempt has finished, also after the 90 seconds timer abandoned it.
C35_OneRequestOutstanding == Cardinality(upSends) <= 1

\* C36: two merge calls that run concurrently for the same sessionId do not
\* interfere: the body a call uploads is the concatenation of its own chunk
\* list, the list file of a call is as the call wrote it until its ffmpeg
\* has run, and its output file is as its ffmpeg wrote it until the call
\* has read it.
C36_ConcurrentMergesIndependent ==
    prog = "merge2" =>
        \A c \in Calls :
            /\ m2Upload[c] # <<>> => m2Upload[c] = <<m2List[c]>>
            /\ m2Pc[c] = "ffmpeg" => m2Fs[ListPath(m2Fn, c)] = <<m2List[c]>>
            /\ m2Pc[c] = "closed" => m2Fs[OutPath(m2Fn, c, m2SameMs)] = m2Wrote[c]

\* ===================================================================
\* Initial states, next-state relations and specifications
\* ===================================================================
\* the variables of POST /chunked while another variant runs
IdleChunked ==
    /\ concurrency = 0
    /\ returnBase64 = FALSE
    /\ audioConfig = DefaultAudioConfig
    /\ audioValidation = NoValidation
    /\ pc = "idle"
    /\ fetchI = 1
    /\ textChunks = <<>>
    /\ sem = NewSemaphore(0)
    /\ task = <<>>
    /\ response = NoResponse
    /\ timedOut = FALSE

IdlePool ==
    /\ pool = NewPool(0)
    /\ ssmlChunks = [u \in Urls |-> 0]
    /\ chunkIndex = [u \in Urls |-> 0]
    /\ urlState = [u \in Urls |-> "idle"]
    /\ chunkUrls = <<>>
    /\ poolPc = "idle"
    /\ poolResult = NoPoolResult

IdleShared ==
    /\ MAX_CONCURRENCY = 0
    /\ semaphore = NewSemaphore022(0)
    /\ rqPc = [r \in Requests |-> "idle"]
    /\ rqChunks = [r \in Requests |-> [u \in Urls |-> 0]]
    /\ rqTask = [r \in Requests |-> [u \in Urls |-> [k \in ChunkIdx |-> "none"]]]
    /\ chunkResults = [r \in Requests |-> [u \in Urls |-> [k \in ChunkIdx |-> <<>>]]]
    /\ rqChunkUrls = [r \in Requests |-> <<>>]
    /\ rqResults = [r \in Requests |-> <<>>]
    /\ rqReturn = [r \in Requests |-> NoReturn]

IdleBatch ==
    /\ bConcurrency = 0
    /\ bChunks = 0
    /\ bI = 0
    /\ bTask = <<>>
    /\ bResults = <<>>
    /\ bPc = "idle"
    /\ bResponse = NoResponse

IdleJobs ==
    /\ TTS_CONCURRENCY = 0
    /\ jobs = [sid \in Sessions |-> NoJob]
    /\ jobPc = [sid \in Sessions |-> "none"]
    /\ jobChunks = [sid \in Sessions |-> 0]
    /\ jobTask = [sid \in Sessions |-> <<>>]
    /\ limit = [sid \in Sessions |-> NewLimit]
    /\ buffers = [sid \in Sessions |-> <<>>]
    /\ jobRuns = [sid \in Sessions |-> 0]
    /\ postFound = [session |-> 0, status |-> "none"]
    /\ jobRes = NoResponse
    /\ bucket = {}

IdleUpload ==
    /\ maxRetries = 0
    /\ attempt = 0
    /\ upPc = "idle"
    /\ upLog = <<>>
    /\ upWaits = <<>>
    /\ upSends = {}
    /\ upResult = NoUpload

IdleMulti ==
    /\ muN = 0
    /\ muPc = "idle"
    /\ muTask = <<>>
    /\ muReturn = NoMuReturn

IdleChunker ==
    /\ ckFn = "none"
    /\ ckText = <<>>
    /\ ckMax = 0
    /\ ckOverlap = 0
    /\ ckPc = "idle"
    /\ ckChunks = <<>>

IdleMerge ==
    /\ mgFn = "none"
    /\ mgN = 0
    /\ mgPc = "idle"
    /\ mgFiles = NoFiles
    /\ mgFfmpeg = "none"
    /\ mgPromise = "none"
    /\ mgUpload = "none"

IdlePodcast ==
    /\ pdIntro = 0
    /\ pdOutro = 0
    /\ pdPc = "idle"
    /\ pdDownload = [i \in 1..3 |-> "none"]
    /\ pdProcessed = <<>>
    /\ pdUploaded = <<>>
    /\ pdError = "none"

IdleAudioMerge ==
    /\ audioBuffers = <<>>
    /\ maPc = <<"idle", "idle">>
    /\ maResult = <<NotABuffer, NotABuffer>>

IdleOpenAI ==
    /\ oaCache = <<>>
    /\ oaText = ""
    /\ oaPc = "idle"
    /\ oaAttempt = 0
    /\ oaLog = <<>>
    /\ oaReturn = Undefined

IdleMerge2 ==
    /\ m2Fn = "none"
    /\ m2List = <<>>
    /\ m2SameMs = FALSE
    /\ m2Pc = <<>>
    /\ m2Fs = <<>>
    /\ m2Wrote = <<>>
    /\ m2Upload = <<>>

\* every utility function but the one that runs is idle
IdleUtil ==
    /\ IF prog = "r2multi" THEN TRUE ELSE IdleMulti
    /\ IF prog = "chunkers" THEN TRUE ELSE IdleChunker
    /\ IF prog = "merge" THEN TRUE ELSE IdleMerge
    /\ IF prog = "podcast" THEN TRUE ELSE IdlePodcast
    /\ IF prog = "audiomerge" THEN TRUE ELSE IdleAudioMerge
    /\ IF prog = "openai" THEN TRUE ELSE IdleOpenAI
    /\ IF prog = "merge2" THEN TRUE ELSE IdleMerge2

InitChunked ==
    /\ prog \in {"routes", "part002"}
    /\ concurrency \in (-1)..MaxConcurrency
    /\ returnBase64 \in BOOLEAN
    /\ audioConfig = DefaultAudioConfig
    /\ audioValidation = NoValidation
    /\ pc = "validate"
    /\ fetchI = 1
    /\ textChunks = <<>>
    /\ sem = NewSemaphore(0)
    /\ task = <<>>
    /\ response = NoResponse
    /\ timedOut = FALSE
    /\ IdlePool
    /\ IdleShared
    /\ IdleBatch
    /\ IdleJobs
    /\ IdleUpload
    /\ IdleUtil

NextChunked ==
    \/ ValidateRequest
    \/ \E ok \in BOOLEAN : FetchText(ok)
    \/ \E n \in 0..NumTextUrls : ChunkText002(n)
    \/ \E i \in 0..(NumTextUrls - 1), b \in 1..MaxBytes : SynthOk(i, b)
    \/ \E i \in 0..(NumTextUrls - 1) : SynthFail(i)
    \/ \E i \in 0..(NumTextUrls - 1) : UploadOk(i)
    \/ \E i \in 0..(NumTextUrls - 1) : UploadFail(i)
    \/ Respond

SpecChunked == InitChunked /\ [][NextChunked]_vars

\* the audio configurations a request carries
AudioConfigs ==
    {[isNull |-> TRUE, audioEncoding |-> Undefined, speakingRate |-> Undefined]}
    \cup [isNull : {FALSE},
          audioEncoding : {Undefined, Str("mp3"), Str("wav"), Num(300)},
          speakingRate : {Undefined, Num(24), Num(25), Num(400), Num(401), Str("fast")}]

\* the handler with the audioConfig of the request's body
InitValidated ==
    /\ prog \in {"routes", "part002"}
    /\ concurrency \in 1..MaxConcurrency
    /\ returnBase64 \in BOOLEAN
    /\ audioConfig \in AudioConfigs
    /\ audioValidation = NoValidation
    /\ pc = "validate"
    /\ fetchI = 1
    /\ textChunks = <<>>
    /\ sem = NewSemaphore(0)
    /\ task = <<>>
    /\ response = NoResponse
    /\ timedOut = FALSE
    /\ IdlePool
    /\ IdleShared
    /\ IdleBatch
    /\ IdleJobs
    /\ IdleUpload
    /\ IdleUtil

SpecValidated == InitValidated /\ [][NextChunked]_vars

\* the handler behind the timeout middleware of index.js
SpecTimeout == InitChunked /\ [][NextChunked \/ RequestTimeout]_vars

\* the handler when every pending call settles and every continuation runs
SpecChunkedLive == InitChunked /\ [][NextChunked]_vars /\ WF_vars(NextChunked)

InitPool ==
    /\ prog = "part020"
    /\ pool \in {NewPool(m) : m \in 1..MaxPoolConcurrency}
    /\ ssmlChunks \in [Urls -> 0..MaxSsmlChunks]
    /\ chunkIndex = [u \in Urls |-> 0]
    /\ urlState = [u \in Urls |-> "idle"]
    /\ chunkUrls = <<>>
    /\ poolPc = "start"
    /\ poolResult = NoPoolResult
    /\ IdleChunked
    /\ IdleShared
    /\ IdleBatch
    /\ IdleJobs
    /\ IdleUpload
    /\ IdleUtil

NextPool ==
    \/ PoolStart
    \/ \E u \in Urls : PoolSynthOk(u)
    \/ \E u \in Urls : PoolSynthFail(u)
    \/ \E u \in Urls : PoolUploadOk(u)
    \/ \E u \in Urls : PoolUploadFail(u)

SpecPool == InitPool /\ [][NextPool]_vars

InitShared ==
    /\ prog = "part022"
    /\ MAX_CONCURRENCY \in 1..MaxPoolConcurrency
    /\ semaphore = NewSemaphore022(MAX_CONCURRENCY)
    /\ rqPc = [r \in Requests |-> "idle"]
    /\ rqChunks = [r \in Requests |-> [u \in Urls |-> 0]]
    /\ rqTask = [r \in Requests |-> [u \in Urls |-> [k \in ChunkIdx |-> "none"]]]
    /\ chunkResults = [r \in Requests |-> [u \in Urls |-> [k \in ChunkIdx |-> <<>>]]]
    /\ rqChunkUrls = [r \in Requests |-> <<>>]
    /\ rqResults = [r \in Requests |-> <<>>]
    /\ rqReturn = [r \in Requests |-> NoReturn]
    /\ IdleChunked
    /\ IdlePool
    /\ IdleBatch
    /\ IdleJobs
    /\ IdleUpload
    /\ IdleUtil

NextShared ==
    \/ \E r \in Requests, shape \in Shapes : CallProcessURLs(r, shape)
    \/ \E r \in Requests, u \in Urls, k \in ChunkIdx : Synth022Ok(r, u, k)
    \/ \E r \in Requests, u \in Urls, k \in ChunkIdx : Synth022Fail(r, u, k)
    \/ \E r \in Requests, u \in Urls, k \in ChunkIdx : Upload022Ok(r, u, k)
    \/ \E r \in Requests, u \in Urls, k \in ChunkIdx : Upload022Fail(r, u, k)
    \/ \E r \in Requests, ok \in BOOLEAN : Merge022(r, ok)

SpecShared == InitShared /\ [][NextShared]_vars

InitBatch ==
    /\ prog = "part019"
    /\ bConcurrency \in 1..MaxConcurrency
    /\ bChunks = 0
    /\ bI = 0
    /\ bTask = <<>>
    /\ bResults = <<>>
    /\ bPc = "start"
    /\ bResponse = NoResponse
    /\ IdleChunked
    /\ IdlePool
    /\ IdleShared
    /\ IdleJobs
    /\ IdleUpload
    /\ IdleUtil

NextBatch ==
    \/ \E n \in 0..MaxBatchChunks : BatchRequest(n)
    \/ \E k \in 0..(MaxBatchChunks - 1) : BatchSynthOk(k)
    \/ \E k \in 0..(MaxBatchChunks - 1) : BatchChunkOk(k)
    \/ \E k \in 0..(MaxBatchChunks - 1) : BatchChunkFail(k)

SpecBatch == InitBatch /\ [][NextBatch]_vars

InitJobs ==
    /\ prog = "jobs"
    /\ TTS_CONCURRENCY \in 1..MaxConcurrency
    /\ jobs = [sid \in Sessions |-> NoJob]
    /\ jobPc = [sid \in Sessions |-> "none"]
    /\ jobChunks = [sid \in Sessions |-> 0]
    /\ jobTask = [sid \in Sessions |-> <<>>]
    /\ limit = [sid \in Sessions |-> NewLimit]
    /\ buffers = [sid \in Sessions |-> <<>>]
    /\ jobRuns = [sid \in Sessions |-> 0]
    /\ postFound = [session |-> 0, status |-> "none"]
    /\ jobRes = NoResponse
    /\ bucket = {}
    /\ IdleChunked
    /\ IdlePool
    /\ IdleShared
    /\ IdleBatch
    /\ IdleUpload
    /\ IdleUtil

NextJobs ==
    \/ \E sid \in Sessions : PostJob(sid)
    \/ \E sid \in Sessions, n \in 0..MaxJobChunks : ListChunksOk(sid, n)
    \/ \E sid \in Sessions : ListChunksFail(sid)
    \/ \E sid \in Sessions, idx \in 0..(MaxJobChunks - 1) : JobSynthOk(sid, idx)
    \/ \E sid \in Sessions, idx \in 0..(MaxJobChunks - 1) : JobSynthFail(sid, idx)
    \/ \E sid \in Sessions, ok \in BOOLEAN : JobMerge(sid, ok)
    \/ \E sid \in Sessions, ok \in BOOLEAN : JobUpload(sid, ok)

SpecJobs == InitJobs /\ [][NextJobs]_vars

\* the pipeline together with the router's other requests
NextJobApi ==
    \/ NextJobs
    \/ PostNoSession
    \/ \E sid \in Sessions : GetStatus(sid)
    \/ \E sid \in Sessions, s3ok \in BOOLEAN : GetAudio(sid, s3ok)

SpecJobApi == InitJobs /\ [][NextJobApi]_vars

\* one call of processURLsToMergedTTS: the slots of a call are its own
\* (buffers and chunkResults are locals of the call)
NextOneCall ==
    \/ \E shape \in Shapes : CallProcessURLs(1, shape)
    \/ \E u \in Urls, k \in ChunkIdx : Synth022Ok(1, u, k)
    \/ \E u \in Urls, k \in ChunkIdx : Synth022Fail(1, u, k)
    \/ \E u \in Urls, k \in ChunkIdx : Upload022Ok(1, u, k)
    \/ \E u \in Urls, k \in ChunkIdx : Upload022Fail(1, u, k)
    \/ \E ok \in BOOLEAN : Merge022(1, ok)

SpecSlots == (InitJobs \/ InitShared) /\ [][NextJobs \/ NextOneCall]_vars

InitUpload ==
    /\ prog = "r2"
    /\ maxRetries \in 0..MaxRetries
    /\ attempt = 0
    /\ upPc = "start"
    /\ upLog = <<>>
    /\ upWaits = <<>>
    /\ upSends = {}
    /\ upResult = NoUpload
    /\ IdleChunked
    /\ IdlePool
    /\ IdleShared
    /\ IdleBatch
    /\ IdleJobs
    /\ IdleUtil

NextUpload ==
    \/ UploadCall
    \/ AttemptOk
    \/ \E kind \in {"transient", "permanent"} : AttemptFail(kind)
    \/ AttemptTimeout
    \/ BackoffOver
    \/ \E a \in 1..MaxRetries : AbandonedSendSettles(a)

SpecUpload == InitUpload /\ [][NextUpload]_vars

\* one request under a hand-rolled limiter: the Semaphore of POST /chunked or
\* the ConcurrencyPool of processURLsToMergedTTS
SpecLimiters == (InitChunked \/ InitPool) /\ [][NextChunked \/ NextPool]_vars

InitMulti ==
    /\ prog = "r2multi"
    /\ muN \in 0..MaxUploads
    /\ muPc = "start"
    /\ muTask = <<>>
    /\ muReturn = NoMuReturn
    /\ IdleChunked
    /\ IdlePool
    /\ IdleShared
    /\ IdleBatch
    /\ IdleJobs
    /\ IdleUpload
    /\ IdleUtil

NextMulti ==
    \/ MultiCall
    \/ \E i \in 1..MaxUploads : MultiAttemptOk(i)
    \/ \E i \in 1..MaxUploads : MultiAttemptFail(i)
    \/ MultiReturn

SpecMulti == InitMulti /\ [][NextMulti]_vars

\* the characters of the texts: a letter, the space and a terminator
Chars == {"a", " ", "."}

Texts == UNION {[1..n -> Chars] : n \in 0..MaxTextLen}

InitChunker ==
    /\ prog = "chunkers"
    /\ ckFn \in Chunkers
    /\ ckText \in Texts
    /\ ckMax \in 1..MaxLength
    /\ ckOverlap = 0
    /\ ckPc = "start"
    /\ ckChunks = <<>>
    /\ IdleChunked
    /\ IdlePool
    /\ IdleShared
    /\ IdleBatch
    /\ IdleJobs
    /\ IdleUpload
    /\ IdleUtil

NextChunker == RunChunker

SpecChunker == InitChunker /\ [][NextChunker]_vars

\* the characters of the texts given to the SSML chunkers
SsmlChars == {"a", "b", " ", "."}

SsmlTexts == UNION {[1..n -> SsmlChars] : n \in 1..MaxTextLen}

InitSsmlChunker ==
    /\ prog = "chunkers"
    /\ ckFn \in SsmlChunkers
    /\ ckText \in SsmlTexts
    /\ ckMax \in 1..MaxLength
    /\ ckOverlap \in IF ckFn = "chunkTextToSSML" THEN 0..MaxOverlap ELSE {0}
    /\ ckPc = "start"
    /\ ckChunks = <<>>
    /\ IdleChunked
    /\ IdlePool
    /\ IdleShared
    /\ IdleBatch
    /\ IdleJobs
    /\ IdleUpload
    /\ IdleUtil

NextSsmlChunker == RunSsmlChunker

SpecSsmlChunker == InitSsmlChunker /\ [][NextSsmlChunker]_vars

InitMerge ==
    /\ prog = "merge"
    /\ mgFn \in MergeRoutines
    /\ mgN \in 0..MaxMergeChunks
    /\ mgPc = "start"
    /\ mgFiles = NoFiles
    /\ mgFfmpeg = "none"
    /\ mgPromise = "none"
    /\ mgUpload = "none"
    /\ IdleChunked
    /\ IdlePool
    /\ IdleShared
    /\ IdleBatch
    /\ IdleJobs
    /\ IdleUpload
    /\ IdleUtil

NextMerge ==
    \/ MergeNothing
    \/ MergeMkdtemp
    \/ \E i \in 0..(MaxMergeChunks - 1) : MergeWritePart(i)
    \/ MergeWriteList
    \/ \E code \in {0, 1}, wroteOut \in BOOLEAN : FfmpegClose(code, wroteOut)
    \/ \E emitted \in BOOLEAN : FfmpegSpawnFails(emitted)
    \/ \E ok \in BOOLEAN : MergeUploadSettles(ok)

SpecMerge == InitMerge /\ [][NextMerge]_vars

InitPodcast ==
    /\ prog = "podcast"
    /\ pdIntro \in (INTRO_DURATION - DurationSlack)..(INTRO_DURATION + DurationSlack)
    /\ pdOutro \in (OUTRO_DURATION - DurationSlack)..(OUTRO_DURATION + DurationSlack)
    /\ pdPc = "start"
    /\ pdDownload = [i \in 1..3 |-> "none"]
    /\ pdProcessed = <<>>
    /\ pdUploaded = <<>>
    /\ pdError = "none"
    /\ IdleChunked
    /\ IdlePool
    /\ IdleShared
    /\ IdleBatch
    /\ IdleJobs
    /\ IdleUpload
    /\ IdleUtil

NextPodcast ==
    \/ PodcastStart
    \/ \E i \in 1..3, answered \in BOOLEAN : AxiosSettles(i, answered)

SpecPodcast == InitPodcast /\ [][NextPodcast]_vars

\* the bytes of the Buffers
Bytes == {1, 2}

Items ==
    {NotABuffer} \cup {Buffer(b) : b \in UNION {[1..n -> Bytes] : n \in 0..MaxBufferLen}}

InitAudioMerge ==
    /\ prog = "audiomerge"
    /\ audioBuffers \in UNION {[1..n -> Items] : n \in 0..MaxBuffers}
    /\ maPc = <<"start", "start">>
    /\ maResult = <<NotABuffer, NotABuffer>>
    /\ IdleChunked
    /\ IdlePool
    /\ IdleShared
    /\ IdleBatch
    /\ IdleJobs
    /\ IdleUpload
    /\ IdleUtil

NextAudioMerge == \E c \in {1, 2} : MergeAudioCall(c)

SpecAudioMerge == InitAudioMerge /\ [][NextAudioMerge]_vars

\* the texts callOpenAIChunk is called with
OpenAITexts == {"<speak>a</speak>", "<speak>b</speak>"}

\* the contents of the responses: none, or a refined SSML
OpenAIContents == {"", "<speak><emphasis>a</emphasis></speak>"}

\* the Retry-After headers of the 429 responses: none, seconds, an HTTP-date
RetryAfterHeaders ==
    {NoHeader, Header(<<"0">>), Header(<<"3">>),
     Header(<<"W", "e", "d", ",", " ", "2", "1">>)}

\* the errors axios.post rejects with
OpenAIErrors ==
    {NoAxiosResponse, HttpError(500, NoHeader)} \cup {HttpError(429, h) : h \in RetryAfterHeaders}

InitOpenAI ==
    /\ prog = "openai"
    /\ oaCache = [t \in OpenAITexts |-> Undefined]
    /\ oaText = ""
    /\ oaPc = "idle"
    /\ oaAttempt = 0
    /\ oaLog = <<>>
    /\ oaReturn = Undefined
    /\ IdleChunked
    /\ IdlePool
    /\ IdleShared
    /\ IdleBatch
    /\ IdleJobs
    /\ IdleUpload
    /\ IdleUtil

NextOpenAI ==
    \/ \E text \in OpenAITexts : OpenAICall(text)
    \/ \E content \in OpenAIContents : AxiosPostResolves(content)
    \/ \E err \in OpenAIErrors : AxiosPostRejects(err)
    \/ BackoffTimerFires
    \/ OpenAICallDone

SpecOpenAI == InitOpenAI /\ [][NextOpenAI]_vars

InitMerge2 ==
    /\ prog = "merge2"
    /\ m2Fn \in {"mergeChunks", "mergeTTSChunksExec", "mergeTTSChunksSpawn"}
    /\ m2List \in [Calls -> {"A", "B"}]
    /\ m2SameMs \in BOOLEAN
    /\ m2Pc = [c \in Calls |-> "start"]
    /\ m2Fs = [p \in Paths |-> <<>>]
    /\ m2Wrote = [c \in Calls |-> <<>>]
    /\ m2Upload = [c \in Calls |-> <<>>]
    /\ IdleChunked
    /\ IdlePool
    /\ IdleShared
    /\ IdleBatch
    /\ IdleJobs
    /\ IdleUpload
    /\ IdleUtil

NextMerge2 ==
    \/ \E c \in Calls : Merge2Start(c)
    \/ \E c \in Calls, ok \in BOOLEAN : Ffmpeg2Exits(c, ok)
    \/ \E c \in Calls : Merge2ReadsOutput(c)
    \/ \E c \in Calls, ok \in BOOLEAN : Merge2UploadSettles(c, ok)

SpecMerge2 == InitMerge2 /\ [][NextMerge2]_vars

====
